---- MODULE Spec2Model ----
(***************************************************************************)
(* The gateway client of the sequential toggle runner (class               *)
(* OpenClawClient): the connect handshake, request/response correlation,   *)
(* the run waiter racing lifecycle events against agent.wait, and          *)
(* sendPrompt.  One client instance, one WebSocket, a server that may send *)
(* any frame at any time while the transport delivers.                     *)
(*                                                                         *)
(* Scheduling follows the Node event loop: a frame, a timer callback and a *)
(* socket event are macrotasks; the continuation of an awaited promise is  *)
(* a microtask.  Frames that arrive in one chunk are dispatched back to    *)
(* back before any microtask runs (tick = "io"); after a timer callback    *)
(* the microtasks run before anything else (tick = "timer").               *)
(***************************************************************************)
EXTENDS Integers, Sequences, FiniteSets, TLC

\* ---------------------------------------------------------------- bounds
MaxCalls == 1            \* sendPrompt calls issued on the client, one after another
MaxDeltas == 2           \* delta chat events the server streams for one run
AgentWaitTicks == 1      \* config.agentWaitTimeoutMs, in ticks of 30000 ms

\* ------------------------------------------------------ program constants
DefaultTimeoutTicks == 1 \* sendRequest's default timeoutMs = 30000
BufferTicks == 1         \* the 30000 ms added to agent.wait's request timeout
ConnectTimeoutTicks == 1 \* connect()'s 15000 ms timer (never runs beside a request timer)
TickMs == 30000

Calls == 1..MaxCalls
NoTimer == -1

SessionKey == "main"
agentWaitTimeoutMs == AgentWaitTicks * TickMs

ErrNotConnected == "Not connected to OpenClaw gateway"
ErrConnectTimeout == "Connection timeout after 15 seconds"
ErrHandshake == "Connect handshake failed"
ErrClosed == "Connection closed before handshake"
ErrTransport == "transport error"
ErrNoRunId == "No runId received from chat.send"
ErrAgent == "Agent error"
ErrRequestTimeout(method) == "Request timeout for " \o method
ErrAgentWaitTimeout == "Agent wait timeout after " \o ToString(agentWaitTimeoutMs) \o "ms"
ErrFailed(method) == method \o " failed"

\* ------------------------------------------------------------ wire values
Nonces == {"abc", ""}                 \* "" is a challenge without a nonce
ServerErrors == {"denied", ""}        \* "" is an error object without a message
AgentErrors == {"boom", ""}           \* "" is a lifecycle error without text
Phases == {"start", "end", "error"}
ChatStates == {"delta", "final", "aborted", "error"}

Session(key, n) == [sessionKey |-> key, totalTokens |-> n, inputTokens |-> n, outputTokens |-> 0]
SessionLists == {<<>>, <<Session("other", 1)>>, <<Session("other", 1), Session(SessionKey, 1)>>}

NoPayload == [runId |-> 0, sessions |-> <<>>]
Payloads(method, c) ==
  IF method = "chat.send" THEN {[runId |-> r, sessions |-> <<>>] : r \in {0, c}}
  ELSE IF method = "sessions.list" THEN {[runId |-> 0, sessions |-> s] : s \in SessionLists}
  ELSE {NoPayload}

\* The three shapes of ChatEvent.message, and a missing message.
TextBlock(t) == [type |-> "text", text |-> t]
ToolBlock == [type |-> "tool_use", text |-> "x"]
MsgString(t) == [shape |-> "string", text |-> t, blocks |-> <<>>]
MsgContent(t) == [shape |-> "content", text |-> t, blocks |-> <<>>]
MsgBlocks(bs) == [shape |-> "blocks", text |-> "", blocks |-> bs]
MsgNone == [shape |-> "none", text |-> "", blocks |-> <<>>]

\* The stream of one run: its k-th delta carries Script(k).
Script(k) ==
  IF k % 3 = 1 THEN MsgString("H")
  ELSE IF k % 3 = 2 THEN MsgContent("i")
  ELSE MsgBlocks(<<ToolBlock, TextBlock("!"), TextBlock("")>>)

VARIABLES
  ws,                  \* this.ws is not null
  sock,                \* the WebSocket: "none", "connecting", "open", "closing", "errored", "closed"
  connected,           \* this.connected
  hs,                  \* connect()'s closure: flags, timer, promise, connect requests sent
  reqs,                \* the requests issued by sendRequest, by id: promise, timer, method
  messageHandlers,     \* ids with an entry in this.messageHandlers
  eventHandlers,       \* this.eventHandlers: runId -> the handler registered ("none" if absent)
  waiter,              \* waitForAgent's promise and deadline timer, by runId
  call,                \* the sendPrompt calls: position, snapshots, result
  accumulatedResponse, \* this.accumulatedResponse
  tick,                \* "idle", or the macrotask whose microtasks are still to run: "io", "timer"
  last                 \* the step just taken

vars == <<ws, sock, connected, hs, reqs, messageHandlers, eventHandlers, waiter, call,
          accumulatedResponse, tick, last>>

\* What the client itself holds (everything but the record of the last step).
clientVars == <<ws, sock, connected, hs, reqs, messageHandlers, eventHandlers, waiter, call,
                accumulatedResponse, tick>>

ZeroSnapshot == [total |-> 0, input |-> 0, output |-> 0]

\* The record of the last step, kept for the frames that may change nothing:
\* "res" is a response that found no entry (how: what had settled its request),
\* "agent" a lifecycle event (how: its phase if a handler ran, else what had
\* settled the run's waiter); every other step is "step".
Step(op, how, hit) == [op |-> op, how |-> how, hit |-> hit]
Quiet == Step("step", "", FALSE)


\* ----------------------------------------------------------------- promises
\* resolve()/reject() of a promise: the first call settles it and queues the
\* reaction of whoever awaits it; a later call does nothing.
SettleTwice(p, status, err, by) ==
  [p EXCEPT !.status = status, !.err = err, !.by = by, !.react = TRUE]

Settle(p, status, err, by) ==
  IF p.status = "pending"
    THEN [p EXCEPT !.status = status, !.err = err, !.by = by, !.react = TRUE]
    ELSE p

\* clearTimeout(timeout)
ClearTimeout(p) == [p EXCEPT !.timer = NoTimer]

\* ------------------------------------------------------------------ helpers
IsConnected == ws /\ connected

CanDeliver == sock \in {"open", "closing"} /\ tick \in {"idle", "io"}

\* Reactions still to run: of a settled request, of a settled waiter, and the
\* caller's to a sendPrompt that has returned.
PendingIn(rq, wt, cl) ==
  \/ \E i \in DOMAIN rq : rq[i].react
  \/ \E r \in Calls : wt[r].react
  \/ \E c \in Calls : cl[c].pc \in {"done", "failed"}

MicrotaskPending == PendingIn(reqs, waiter, call)

\* The macrotask a step belongs to, once the step has left rq, wt and cl behind.
TickAfter(kind, rq, wt, cl) ==
  IF PendingIn(rq, wt, cl) THEN (IF tick = "idle" THEN kind ELSE tick) ELSE "idle"

\* ws.close() on the socket this.ws refers to.
LeaveSock(w, s) == s

CloseSock(w, s) == IF w /\ s \in {"connecting", "open"} THEN "closing" ELSE s

NewRequest(method, c, ticks) ==
  [method |-> method, call |-> c, status |-> "pending", err |-> "", by |-> "",
   react |-> FALSE, timer |-> ticks, res |-> NoPayload]

NewWaiter(reqId) ==
  [status |-> "pending", err |-> "", by |-> "", react |-> FALSE,
   timer |-> AgentWaitTicks, req |-> reqId, abandoned |-> FALSE]

NoWaiter ==
  [status |-> "none", err |-> "", by |-> "", react |-> FALSE,
   timer |-> NoTimer, req |-> 0, abandoned |-> FALSE]

IdleCall ==
  [pc |-> "idle", req |-> 0, start |-> ZeroSnapshot, tokens |-> ZeroSnapshot,
   text |-> "", err |-> "", seq |-> 0]

\* sessions.find(s => s.sessionKey === this.config.sessionKey), then the counters.
SnapshotOfFirst(sessions) ==
  IF sessions = <<>> THEN ZeroSnapshot
  ELSE [total |-> sessions[1].totalTokens, input |-> sessions[1].inputTokens,
        output |-> sessions[1].outputTokens]

Snapshot(sessions) ==
  LET idx == {i \in DOMAIN sessions : sessions[i].sessionKey = SessionKey}
  IN IF idx = {} THEN ZeroSnapshot
     ELSE LET s == sessions[CHOOSE i \in idx : \A j \in idx : i <= j]
          IN [total |-> s.totalTokens, input |-> s.inputTokens, output |-> s.outputTokens]

\* getSessionTokens(): the snapshot of a settled sessions.list request.
SessionTokens(q) ==
  IF q.status = "resolved" THEN Snapshot(q.res.sessions) ELSE ZeroSnapshot

TokenDeltaSwapped(endTokens, startTokens) ==
  [total |-> startTokens.total - endTokens.total,
   input |-> startTokens.input - endTokens.input,
   output |-> startTokens.output - endTokens.output]

TokenDelta(endTokens, startTokens) ==
  [total |-> endTokens.total - startTokens.total,
   input |-> endTokens.input - startTokens.input,
   output |-> endTokens.output - startTokens.output]

RECURSIVE BlocksText(_)
BlocksText(bs) ==
  IF bs = <<>> THEN ""
  ELSE (IF Head(bs).type = "text" /\ Head(bs).text # "" THEN Head(bs).text ELSE "")
       \o BlocksText(Tail(bs))

\* The text a delta's message contributes.
ExtractText(m) ==
  IF m.shape = "string" THEN m.text
  ELSE IF m.shape = "content" THEN m.text
  ELSE IF m.shape = "blocks" THEN BlocksText(m.blocks)
  ELSE ""

\* sendPrompt's chatHandler applied to the accumulator.
ChatHandler(acc, event, state, m) ==
  IF event = "chat" /\ state = "delta" /\ m.shape # "none"
    THEN acc \o ExtractText(m)
    ELSE acc

Init ==
  /\ ws = FALSE
  /\ sock = "none"
  /\ connected = FALSE
  /\ hs = [challengeReceived |-> FALSE, handshakeComplete |-> FALSE, timer |-> NoTimer,
           promise |-> "none", err |-> "", sent |-> 0, version |-> "", nonce |-> ""]
  /\ reqs = <<>>
  /\ messageHandlers = {}
  /\ eventHandlers = [r \in Calls |-> "none"]
  /\ waiter = [r \in Calls |-> NoWaiter]
  /\ call = [c \in Calls |-> IdleCall]
  /\ accumulatedResponse = ""
  /\ tick = "idle"
  /\ last = Quiet

\* ------------------------------------------------------------------ connect
\* connect(): start the 15 s timer and open the socket.
Connect ==
  /\ tick = "idle"
  /\ hs.promise = "none"
  /\ ws' = TRUE
  /\ sock' = "connecting"
  /\ hs' = [hs EXCEPT !.promise = "pending", !.timer = ConnectTimeoutTicks]
  /\ last' = Quiet
  /\ UNCHANGED <<connected, reqs, messageHandlers, eventHandlers, waiter, call,
                 accumulatedResponse, tick>>

\* reject() / resolve() of connect()'s promise.
SettleConnect(h, status, err) ==
  IF h.promise = "pending" THEN [h EXCEPT !.promise = status, !.err = err] ELSE h

\* The 15 s timer of connect().
ConnectTimeout ==
  /\ tick = "idle"
  /\ hs.timer = 0
  /\ IF ~connected
       THEN /\ sock' = CloseSock(ws, sock)
            /\ hs' = SettleConnect([hs EXCEPT !.timer = NoTimer], "rejected", ErrConnectTimeout)
       ELSE /\ sock' = sock
            /\ hs' = [hs EXCEPT !.timer = NoTimer]
  /\ last' = Quiet
  /\ UNCHANGED <<ws, connected, reqs, messageHandlers, eventHandlers, waiter, call,
                 accumulatedResponse, tick>>

\* ws 'open': nothing but a log line; the client waits for the challenge.
SockOpen ==
  /\ tick = "idle"
  /\ sock = "connecting"
  /\ sock' = "open"
  /\ last' = Quiet
  /\ UNCHANGED <<ws, connected, hs, reqs, messageHandlers, eventHandlers, waiter, call,
                 accumulatedResponse, tick>>

\* ws 'error'.
SockError ==
  /\ tick = "idle"
  /\ sock \in {"connecting", "open"}
  /\ sock' = "errored"
  /\ hs' = SettleConnect([hs EXCEPT !.timer = NoTimer], "rejected", ErrTransport)
  /\ last' = Quiet
  /\ UNCHANGED <<ws, connected, reqs, messageHandlers, eventHandlers, waiter, call,
                 accumulatedResponse, tick>>

\* ws 'close'.
SockClose ==
  /\ tick = "idle"
  /\ sock \in {"connecting", "open", "closing", "errored"}
  /\ sock' = "closed"
  /\ connected' = FALSE
  /\ hs' = IF ~hs.handshakeComplete
             THEN SettleConnect([hs EXCEPT !.timer = NoTimer], "rejected", ErrClosed)
             ELSE hs
  /\ last' = Quiet
  /\ UNCHANGED <<ws, reqs, messageHandlers, eventHandlers, waiter, call,
                 accumulatedResponse, tick>>

\* const version = nonce ? 'v2' : 'v1'
SignVersionV2(nonce) == "v2"

SignVersion(nonce) == IF nonce # "" THEN "v2" ELSE "v1"

\* sendConnectRequest(nonce): the signature version and the frame, sent if the socket takes it.
SendConnectRequest(h, nonce) ==
  IF ws /\ sock = "open"
    THEN [h EXCEPT !.sent = @ + 1,
                   !.version = SignVersion(nonce),
                   !.nonce = nonce]
    ELSE h

\* The test the message handler makes on a connect.challenge event.
EveryChallenge(h) == TRUE

FirstChallenge(h) == ~h.challengeReceived

\* A connect.challenge event frame.
RecvChallenge(nonce) ==
  /\ CanDeliver
  /\ hs.promise # "none"
  /\ IF FirstChallenge(hs)
       THEN hs' = SendConnectRequest([hs EXCEPT !.challengeReceived = TRUE], nonce)
       ELSE hs' = hs   \* handleFrame: an event that is neither chat nor agent
  /\ last' = Quiet
  /\ UNCHANGED <<ws, sock, connected, reqs, messageHandlers, eventHandlers, waiter, call,
                 accumulatedResponse, tick>>

\* frame.error?.message || 'Connect handshake failed'
HandshakeErrorGeneric(e) == ErrHandshake

HandshakeError(e) == IF e # "" THEN e ELSE ErrHandshake

\* A response frame carrying connectId.
RecvConnectRes(ok, e) ==
  /\ CanDeliver
  /\ hs.sent > 0
  /\ ok => e = ""
  /\ IF ~hs.handshakeComplete
       THEN IF ok
              THEN /\ hs' = SettleConnect([hs EXCEPT !.handshakeComplete = TRUE,
                                                     !.timer = NoTimer], "resolved", "")
                   /\ connected' = TRUE
              ELSE /\ hs' = SettleConnect([hs EXCEPT !.timer = NoTimer], "rejected",
                                          HandshakeError(e))
                   /\ connected' = connected
       ELSE /\ hs' = hs   \* handleFrame: no entry for connectId in messageHandlers
            /\ connected' = connected
  /\ last' = Quiet
  /\ UNCHANGED <<ws, sock, reqs, messageHandlers, eventHandlers, waiter, call,
                 accumulatedResponse, tick>>


\* -------------------------------------------------------------- sendRequest
\* sendRequest past its connection check: a fresh id, the timer, the entry in
\* messageHandlers, the frame.
SendRequestReusingId(rq, method, c, ticks) ==
  IF rq = <<>> THEN Append(rq, NewRequest(method, c, ticks))
  ELSE [rq EXCEPT ![Len(rq)] = NewRequest(method, c, ticks)]

SendRequest(rq, method, c, ticks) == Append(rq, NewRequest(method, c, ticks))

\* The reaction to settled request id has run; its response is held no longer.
Reacted(rq, id) == [rq EXCEPT ![id].react = FALSE, ![id].res = NoPayload, ![id].err = ""]

\* The handler sendRequest registers, run on a response: clearTimeout, then
\* reject with the server's message or resolve with the response.
ResponseHandler(q, ok, e, p) ==
  IF ~ok
    THEN Settle(ClearTimeout(q), "rejected", IF e # "" THEN e ELSE ErrFailed(q.method), "response")
    ELSE Settle([ClearTimeout(q) EXCEPT !.res = IF q.status = "pending" THEN p ELSE @],
                "resolved", "", "response")

\* sendRequest's timer callback: delete the entry, reject.
TimeoutSilent(q) == ClearTimeout(q)

TimeoutHandler(q) ==
  Settle(ClearTimeout(q), "rejected", ErrRequestTimeout(q.method), "timeout")

\* this.messageHandlers.delete(frame.id) after the handler has run.
KeepEntry(mh, id) == mh

DeleteEntry(mh, id) == mh \ {id}

\* const handler = this.messageHandlers.get(frame.id); if (handler) ...
EntryAssumed(mh, id) == TRUE

HasEntry(mh, id) == id \in mh

\* handleFrame on a response frame: the entry's handler, then delete the entry.
RecvResponse(id, ok, e, p) ==
  /\ CanDeliver
  /\ id \in DOMAIN reqs
  /\ p \in Payloads(reqs[id].method, reqs[id].call)
  /\ ok => e = ""
  /\ ~ok => p = NoPayload
  /\ id \notin messageHandlers => ok /\ p = NoPayload   \* dropped whatever it carries
  /\ IF HasEntry(messageHandlers, id)
       THEN /\ reqs' = [reqs EXCEPT ![id] = ResponseHandler(@, ok, e, p)]
            /\ messageHandlers' = DeleteEntry(messageHandlers, id)
       ELSE /\ reqs' = reqs
            /\ messageHandlers' = messageHandlers
  /\ tick' = TickAfter("io", reqs', waiter, call)
  /\ last' = IF id \in messageHandlers THEN Quiet ELSE Step("res", reqs[id].by, FALSE)
  /\ UNCHANGED <<ws, sock, connected, hs, eventHandlers, waiter, call, accumulatedResponse>>

\* this.messageHandlers.delete(messageId) in the timer callback.
TimeoutKeep(mh, id) == mh

TimeoutClear(mh, id) == {}

TimeoutDelete(mh, id) == mh \ {id}

\* The timer of request id fires.
RequestTimeout(id) ==
  /\ tick = "idle"
  /\ id \in DOMAIN reqs
  /\ reqs[id].timer = 0
  /\ messageHandlers' = TimeoutDelete(messageHandlers, id)
  /\ reqs' = [reqs EXCEPT ![id] = TimeoutHandler(@)]
  /\ tick' = TickAfter("timer", reqs', waiter, call)
  /\ last' = Quiet
  /\ UNCHANGED <<ws, sock, connected, hs, eventHandlers, waiter, call, accumulatedResponse>>

\* ------------------------------------------------------------- waitForAgent
\* The handler waitForAgent registers under runId, run on an event.
LifecycleHandlerEndsOnStart(w, event, phase, e) ==
  IF event = "agent"
    THEN IF phase = "error"
           THEN Settle(ClearTimeout(w), "rejected", IF e # "" THEN e ELSE ErrAgent, "error")
           ELSE Settle(ClearTimeout(w), "resolved", "", "end")
    ELSE w

LifecycleHandlerIgnoresEnd(w, event, phase, e) ==
  IF event = "agent" /\ phase = "error"
    THEN Settle(ClearTimeout(w), "rejected", IF e # "" THEN e ELSE ErrAgent, "error")
    ELSE w

LifecycleHandlerDropsText(w, event, phase, e) ==
  IF event = "agent"
    THEN IF phase = "end" THEN Settle(ClearTimeout(w), "resolved", "", "end")
         ELSE IF phase = "error" THEN Settle(ClearTimeout(w), "rejected", ErrAgent, "error")
         ELSE w
    ELSE w

LifecycleHandler(w, event, phase, e) ==
  IF event = "agent"
    THEN IF phase = "end" THEN Settle(ClearTimeout(w), "resolved", "", "end")
         ELSE IF phase = "error"
           THEN Settle(ClearTimeout(w), "rejected", IF e # "" THEN e ELSE ErrAgent, "error")
         ELSE w
    ELSE w

\* Whether that handler deletes its own entry.
LifecycleDeletesOnEndOnly(event, phase) == event = "agent" /\ phase = "end"

LifecycleDeletes(event, phase) == event = "agent" /\ phase \in {"end", "error"}

\* this.eventHandlers.delete(runId) in the deadline timer's callback.
DeadlineKeep(eh, r) == eh

DeadlineDelete(eh, r) == [eh EXCEPT ![r] = "none"]

\* The deadline timer's callback: delete the handler, reject.
DeadlineHandler(w) ==
  Settle(ClearTimeout(w), "rejected", ErrAgentWaitTimeout, "deadline")

\* The .then of the agent.wait request: clearTimeout, delete the handler, resolve.
WaitThenIgnored(w) == w

WaitThen(w) == Settle(ClearTimeout(w), "resolved", "", "wait")

\* The .catch of the agent.wait request, given whether eventHandlers has runId.
WaitCatchSwallows(w, has, err) == w

WaitCatch(w, has, err) ==
  IF has THEN Settle(ClearTimeout(w), "rejected", err, "waitFailed") ELSE w

\* The deadline of run r's waiter elapses.
AgentWaitDeadline(r) ==
  /\ tick = "idle"
  /\ waiter[r].timer = 0
  /\ eventHandlers' = DeadlineDelete(eventHandlers, r)
  /\ waiter' = [waiter EXCEPT ![r] = DeadlineHandler(@)]
  /\ tick' = TickAfter("timer", reqs, waiter', call)
  /\ last' = Quiet
  /\ UNCHANGED <<ws, sock, connected, hs, reqs, messageHandlers, call, accumulatedResponse>>

\* The reaction to the settled agent.wait request of run r.
ReactWait(r) ==
  LET id == waiter[r].req
  IN /\ id # 0
     /\ reqs[id].react
     /\ reqs' = Reacted(reqs, id)
     /\ IF reqs[id].status = "resolved"
          THEN /\ waiter' = [waiter EXCEPT ![r] = WaitThen(@)]
               /\ eventHandlers' = [eventHandlers EXCEPT ![r] = "none"]
          ELSE /\ waiter' = [waiter EXCEPT ![r] =
                               WaitCatch(@, eventHandlers[r] # "none", reqs[id].err)]
               /\ eventHandlers' = IF eventHandlers[r] # "none"
                                     THEN [eventHandlers EXCEPT ![r] = "none"]
                                     ELSE eventHandlers
     /\ tick' = TickAfter(tick, reqs', waiter', call)
     /\ last' = Quiet
     /\ UNCHANGED <<ws, sock, connected, hs, messageHandlers, call, accumulatedResponse>>

\* handleFrame on an agent lifecycle event for run r.
RecvAgent(r, phase, e) ==
  /\ CanDeliver
  /\ call[r].pc \notin {"idle", "before"}
  /\ phase # "error" => e = ""
  /\ LET h == eventHandlers[r]
     IN /\ waiter' = IF h \in {"lifecycle", "chat+lifecycle"}
                       THEN [waiter EXCEPT ![r] = LifecycleHandler(@, "agent", phase, e)]
                       ELSE waiter
        /\ eventHandlers' = IF h \in {"lifecycle", "chat+lifecycle"}
                                 /\ LifecycleDeletes("agent", phase)
                              THEN [eventHandlers EXCEPT ![r] = "none"]
                              ELSE eventHandlers
        /\ accumulatedResponse' = IF h \in {"chat", "chat+lifecycle"}
                                    THEN ChatHandler(accumulatedResponse, "agent", phase, MsgNone)
                                    ELSE accumulatedResponse
        /\ last' = IF h # "none" THEN Step("agent", phase, TRUE)
                              ELSE Step("agent", waiter[r].by, FALSE)
  /\ tick' = TickAfter("io", reqs, waiter', call)
  /\ UNCHANGED <<ws, sock, connected, hs, reqs, messageHandlers, call>>

\* A chat event's message: a delta carries the next message of the run's
\* stream (call[r].seq counts the deltas dispatched while accumulating).
ChatMessage(r, state) == IF state = "delta" THEN Script(call[r].seq + 1) ELSE MsgNone

\* Between sendPrompt's registration of the chat handler and the waiter's settlement.
Accumulating(r) == call[r].pc = "wait" /\ waiter[r].status = "pending"

\* handleFrame on a chat event for run r.
RecvChat(r, state) ==
  /\ CanDeliver
  /\ call[r].pc \notin {"idle", "before"}
  /\ state = "delta" => call[r].seq < MaxDeltas
  /\ LET h == eventHandlers[r]
         m == ChatMessage(r, state)
     IN /\ waiter' = IF h \in {"lifecycle", "chat+lifecycle"}
                       THEN [waiter EXCEPT ![r] = LifecycleHandler(@, "chat", state, "")]
                       ELSE waiter
        /\ eventHandlers' = IF h \in {"lifecycle", "chat+lifecycle"}
                                 /\ LifecycleDeletes("chat", state)
                              THEN [eventHandlers EXCEPT ![r] = "none"]
                              ELSE eventHandlers
        /\ accumulatedResponse' = IF h \in {"chat", "chat+lifecycle"}
                                    THEN ChatHandler(accumulatedResponse, "chat", state, m)
                                    ELSE accumulatedResponse
        /\ call' = IF state = "delta" /\ Accumulating(r)
                     THEN [call EXCEPT ![r].seq = @ + 1]
                     ELSE call
        /\ last' = Quiet
  /\ tick' = TickAfter("io", reqs, waiter', call')
  /\ UNCHANGED <<ws, sock, connected, hs, reqs, messageHandlers>>

\* A runId none of this client's chat.send calls was given.
OtherRun == MaxCalls + 1

\* this.eventHandlers.get(runId): the runs whose handler a frame carrying runId invokes.
InvokedAny(eh, runId) == {b \in DOMAIN eh : eh[b] # "none"}

Invoked(eh, runId) == {b \in DOMAIN eh : b = runId /\ eh[b] # "none"}

\* handleFrame on a chat or agent lifecycle event that carries OtherRun.
RecvOther(event, phase) ==
  /\ CanDeliver
  /\ hs.promise # "none"
  /\ event = "agent" => phase \in Phases
  /\ event = "chat" => phase \in ChatStates
  /\ LET targets == Invoked(eventHandlers, OtherRun)
         life == {b \in targets : eventHandlers[b] \in {"lifecycle", "chat+lifecycle"}}
         chat == {b \in targets : eventHandlers[b] \in {"chat", "chat+lifecycle"}}
     IN /\ waiter' = [b \in Calls |->
                        IF b \in life THEN LifecycleHandler(waiter[b], event, phase, "")
                                      ELSE waiter[b]]
        /\ eventHandlers' = [b \in Calls |->
                               IF b \in life /\ LifecycleDeletes(event, phase)
                                 THEN "none" ELSE eventHandlers[b]]
        /\ accumulatedResponse' = IF chat # {}
                                    THEN ChatHandler(accumulatedResponse, event, phase, Script(1))
                                    ELSE accumulatedResponse
  /\ tick' = TickAfter("io", reqs, waiter', call)
  /\ last' = IF \E b \in Calls : eventHandlers[b] # "none"
               THEN Step("other", "", FALSE) ELSE Quiet
  /\ UNCHANGED <<ws, sock, connected, hs, reqs, messageHandlers, call>>


\* --------------------------------------------------------------- sendPrompt
Finished(c) == call[c].pc = "over"

\* The promises of a call that has returned are garbage.  When the next call
\* starts, the records keep only what the client still holds: the entries of
\* requests still pending (an agent.wait outliving its run) and their timers.
\* The ids are opaque, so the entries kept are renumbered.
Live(rq) == {i \in DOMAIN rq : rq[i].status = "pending"}
Renumber(rq, i) == Cardinality({j \in Live(rq) : j <= i})
KeepLive(rq) ==
  LET Pick(q) == q.status = "pending" IN SelectSeq(rq, Pick)
OverCall == [IdleCall EXCEPT !.pc = "over"]
OverWaiter(w, rq) ==
  IF w.status = "none" THEN w
  ELSE [NoWaiter EXCEPT !.status = "over",
                        !.req = IF w.req \in Live(rq) THEN Renumber(rq, w.req) ELSE 0]

\* this.accumulatedResponse = ''
ResetToStale(acc) == "stale"

ResetAccumulator(acc) == ""

\* sendPrompt(prompt) is called: getSessionTokens() sends sessions.list.  On a
\* client that is not connected the query fails, the snapshot is zero, the
\* accumulator is reset and chat.send throws.
SendPrompt(c) ==
  /\ tick = "idle"
  /\ call[c].pc = "idle"
  /\ \A d \in Calls : d < c => Finished(d)
  /\ accumulatedResponse' = IF IsConnected THEN accumulatedResponse
                                             ELSE ResetAccumulator(accumulatedResponse)
  /\ LET held == {Renumber(reqs, i) : i \in messageHandlers}
     IN IF IsConnected
          THEN /\ reqs' = SendRequest(KeepLive(reqs), "sessions.list", c, DefaultTimeoutTicks)
               /\ messageHandlers' = held \cup {Len(reqs')}
               /\ call' = [call EXCEPT ![c].pc = "before", ![c].req = Len(reqs')]
          ELSE /\ reqs' = KeepLive(reqs)
               /\ messageHandlers' = held
               /\ call' = [call EXCEPT ![c].pc = "failed", ![c].err = ErrNotConnected]
  /\ waiter' = [r \in Calls |-> OverWaiter(waiter[r], reqs)]
  /\ tick' = TickAfter("call", reqs', waiter', call')
  /\ last' = Quiet
  /\ UNCHANGED <<ws, sock, connected, hs, eventHandlers>>

\* The before-snapshot query has settled: reset the accumulator, send chat.send.
AfterStartTokens(c) ==
  LET id == call[c].req
  IN /\ call[c].pc = "before"
     /\ reqs[id].react
     /\ accumulatedResponse' = ResetAccumulator(accumulatedResponse)
     /\ IF IsConnected
          THEN /\ reqs' = SendRequest(Reacted(reqs, id),
                                      "chat.send", c, DefaultTimeoutTicks)
               /\ messageHandlers' = messageHandlers \cup {Len(reqs')}
               /\ call' = [call EXCEPT ![c].pc = "chat", ![c].req = Len(reqs'),
                                       ![c].start = SessionTokens(reqs[id])]
          ELSE /\ reqs' = Reacted(reqs, id)
               /\ messageHandlers' = messageHandlers
               /\ call' = [call EXCEPT ![c].pc = "failed", ![c].err = ErrNotConnected,
                                       ![c].start = SessionTokens(reqs[id])]
     /\ tick' = TickAfter(tick, reqs', waiter, call')
     /\ last' = Quiet
     /\ UNCHANGED <<ws, sock, connected, hs, eventHandlers, waiter>>

\* sendPrompt registers its chat handler under runId, around whatever handler is there.
RegisterChatHandler(eh, runId) ==
  [eh EXCEPT ![runId] = IF @ = "none" THEN "chat" ELSE "chat+lifecycle"]

\* waitForAgent sets its own handler under runId.
RegisterLifecycleLater(eh, runId) == eh

RegisterLifecycleHandler(eh, runId) == [eh EXCEPT ![runId] = "lifecycle"]

\* this.config.agentWaitTimeoutMs + 30000, the timeout of the agent.wait request.
WaitRequestTicksNoBuffer == AgentWaitTicks

WaitRequestTicks == AgentWaitTicks + BufferTicks

\* const runId = sendResponse.result?.runId (0: the response carries none)
RunIdDefaulted(res, c) == c

RunIdOf(res, c) == res.runId

\* chat.send has settled: with a runId, register the chat handler and start the
\* waiter (deadline timer, lifecycle handler, agent.wait request).
AfterChatSend(c) ==
  LET id == call[c].req
      runId == RunIdOf(reqs[id].res, c)
      rq == Reacted(reqs, id)
      eh == RegisterLifecycleHandler(RegisterChatHandler(eventHandlers, runId), runId)
  IN /\ call[c].pc = "chat"
     /\ reqs[id].react
     /\ IF reqs[id].status = "rejected"
          THEN /\ call' = [call EXCEPT ![c].pc = "failed", ![c].err = reqs[id].err]
               /\ reqs' = rq
               /\ UNCHANGED <<messageHandlers, eventHandlers, waiter>>
          ELSE IF runId = 0
          THEN /\ call' = [call EXCEPT ![c].pc = "failed", ![c].err = ErrNoRunId]
               /\ reqs' = rq
               /\ UNCHANGED <<messageHandlers, eventHandlers, waiter>>
          ELSE IF IsConnected
          THEN /\ call' = [call EXCEPT ![c].pc = "wait", ![c].req = 0]
               /\ reqs' = SendRequest(rq, "agent.wait", runId, WaitRequestTicks)
               /\ messageHandlers' = messageHandlers \cup {Len(reqs')}
               /\ eventHandlers' = eh
               /\ waiter' = [waiter EXCEPT ![runId] = NewWaiter(Len(reqs'))]
          ELSE \* agent.wait throws: its .catch finds the handler and rejects
               /\ call' = [call EXCEPT ![c].pc = "wait", ![c].req = 0]
               /\ reqs' = rq
               /\ messageHandlers' = messageHandlers
               /\ eventHandlers' = [eh EXCEPT ![runId] = "none"]
               /\ waiter' = [waiter EXCEPT ![runId] =
                               WaitCatch(NewWaiter(0), TRUE, ErrNotConnected)]
     /\ tick' = TickAfter(tick, reqs', waiter', call')
     /\ last' = Quiet
     /\ UNCHANGED <<ws, sock, connected, hs, accumulatedResponse>>

RECURSIVE StreamText(_)
StreamText(n) == IF n = 0 THEN "" ELSE StreamText(n - 1) \o ExtractText(Script(n))

\* The text of the deltas dispatched for run c while sendPrompt was accumulating.
Expected(c) == StreamText(call[c].seq)

\* sendPrompt's result once the after-snapshot is known.
Finish(cl, endTokens) ==
  [cl EXCEPT !.pc = "done", !.req = 0, !.tokens = TokenDelta(endTokens, cl.start),
             !.text = accumulatedResponse]

\* await this.waitForAgent(runId): a rejected waiter makes sendPrompt throw.
WaitNeverThrows(w) == FALSE

WaitThrows(w) == w.status = "rejected"

\* The waiter has settled: on success query the after-snapshot, on failure reject.
AfterWait(c) ==
  /\ call[c].pc = "wait"
  /\ waiter[c].react
  /\ waiter' = [waiter EXCEPT ![c].react = FALSE]
  /\ IF WaitThrows(waiter[c])
       THEN /\ call' = [call EXCEPT ![c].pc = "failed", ![c].err = waiter[c].err]
            /\ UNCHANGED <<reqs, messageHandlers>>
       ELSE IF IsConnected
       THEN /\ reqs' = SendRequest(reqs, "sessions.list", c, DefaultTimeoutTicks)
            /\ messageHandlers' = messageHandlers \cup {Len(reqs')}
            /\ call' = [call EXCEPT ![c].pc = "after", ![c].req = Len(reqs')]
       ELSE /\ call' = [call EXCEPT ![c] = Finish(@, ZeroSnapshot)]
            /\ UNCHANGED <<reqs, messageHandlers>>
  /\ tick' = TickAfter(tick, reqs', waiter', call')
  /\ last' = Quiet
  /\ UNCHANGED <<ws, sock, connected, hs, eventHandlers, accumulatedResponse>>

\* The after-snapshot query has settled: sendPrompt returns.
AfterEndTokens(c) ==
  LET id == call[c].req
  IN /\ call[c].pc = "after"
     /\ reqs[id].react
     /\ reqs' = Reacted(reqs, id)
     /\ call' = [call EXCEPT ![c] = Finish(@, SessionTokens(reqs[id]))]
     /\ tick' = TickAfter(tick, reqs', waiter, call')
     /\ last' = Quiet
     /\ UNCHANGED <<ws, sock, connected, hs, messageHandlers, eventHandlers, waiter,
                    accumulatedResponse>>

\* The caller's reaction to a sendPrompt that resolved or rejected.
Return(c) ==
  /\ call[c].pc \in {"done", "failed"}
  /\ call' = [call EXCEPT ![c] = OverCall]
  /\ tick' = TickAfter(tick, reqs, waiter, call')
  /\ last' = Quiet
  /\ UNCHANGED <<ws, sock, connected, hs, reqs, messageHandlers, eventHandlers, waiter,
                 accumulatedResponse>>

\* --------------------------------------------------------------- disconnect
\* this.messageHandlers.clear()
ClearNothing(mh) == mh

ClearHandlers(mh) == {}

\* this.eventHandlers.clear()
KeepEvents(eh) == eh

ClearEvents(eh) == [r \in DOMAIN eh |-> "none"]

\* What this.eventHandlers.clear() does to a waiter: its handler is gone, its
\* promise and its deadline timer are left as they are.
AbandonCancelling(w) ==
  IF w.status = "pending" THEN [w EXCEPT !.abandoned = TRUE, !.timer = NoTimer] ELSE w

AbandonRejecting(w) == Settle(w, "rejected", ErrNotConnected, "disconnect")

Abandon(w) == IF w.status = "pending" THEN [w EXCEPT !.abandoned = TRUE] ELSE w

\* disconnect(): with a socket, clear both registries and close it.
Disconnect ==
  /\ tick = "idle"
  /\ hs.promise # "none"
  /\ IF ws
       THEN /\ messageHandlers' = ClearHandlers(messageHandlers)
            /\ eventHandlers' = ClearEvents(eventHandlers)
            /\ sock' = CloseSock(ws, sock)
            /\ ws' = FALSE
            /\ waiter' = [r \in Calls |-> Abandon(waiter[r])]
       ELSE UNCHANGED <<messageHandlers, eventHandlers, sock, ws, waiter>>
  /\ connected' = FALSE
  /\ last' = Quiet
  /\ UNCHANGED <<hs, reqs, call, accumulatedResponse, tick>>

\* --------------------------------------------------------------------- time
Timers ==
  {hs.timer} \cup {reqs[i].timer : i \in DOMAIN reqs} \cup {waiter[r].timer : r \in Calls}

Elapse(t) == IF t > 0 THEN t - 1 ELSE t

\* One tick of time passes; a timer that is due fires before the next tick.
Tick ==
  /\ tick = "idle"
  /\ 0 \notin Timers
  /\ \E t \in Timers : t > 0
  /\ hs' = [hs EXCEPT !.timer = Elapse(@)]
  /\ reqs' = [i \in DOMAIN reqs |-> [reqs[i] EXCEPT !.timer = Elapse(@)]]
  /\ waiter' = [r \in Calls |-> [waiter[r] EXCEPT !.timer = Elapse(@)]]
  /\ last' = Quiet
  /\ UNCHANGED <<ws, sock, connected, messageHandlers, eventHandlers, call,
                 accumulatedResponse, tick>>

Next ==
  \/ Connect
  \/ ConnectTimeout
  \/ SockOpen
  \/ SockError
  \/ SockClose
  \/ RecvChallenge("abc")
  \/ \E ok \in BOOLEAN, e \in ServerErrors : RecvConnectRes(ok, e)
  \/ \E id \in DOMAIN reqs, ok \in BOOLEAN, e \in ServerErrors :
       \E p \in Payloads(reqs[id].method, reqs[id].call) : RecvResponse(id, ok, e, p)
  \/ \E id \in DOMAIN reqs : RequestTimeout(id)
  \/ \E r \in Calls : AgentWaitDeadline(r)
  \/ \E r \in Calls : ReactWait(r)
  \/ \E r \in Calls, phase \in Phases, e \in AgentErrors : RecvAgent(r, phase, e)
  \/ \E r \in Calls, state \in ChatStates : RecvChat(r, state)
  \/ \E event \in {"chat", "agent"}, phase \in Phases \cup ChatStates : RecvOther(event, phase)
  \/ \E c \in Calls : SendPrompt(c)
  \/ \E c \in Calls : AfterStartTokens(c)
  \/ \E c \in Calls : AfterChatSend(c)
  \/ \E c \in Calls : AfterWait(c)
  \/ \E c \in Calls : AfterEndTokens(c)
  \/ \E c \in Calls : Return(c)
  \/ Disconnect
  \/ Tick

Spec == Init /\ [][Next]_vars

\* The event loop: a timer that is due fires, time passes while the process
\* lives, and the reactions queued by a settled promise run.
TimersFire ==
  /\ WF_vars(Tick)
  /\ WF_vars(ConnectTimeout)
  /\ WF_vars(\E id \in DOMAIN reqs : RequestTimeout(id))
  /\ WF_vars(\E r \in Calls : AgentWaitDeadline(r))

MicrotasksRun ==
  /\ WF_vars(\E r \in Calls : ReactWait(r))
  /\ WF_vars(\E c \in Calls : AfterStartTokens(c))
  /\ WF_vars(\E c \in Calls : AfterChatSend(c))
  /\ WF_vars(\E c \in Calls : AfterWait(c))
  /\ WF_vars(\E c \in Calls : AfterEndTokens(c))
  /\ WF_vars(\E c \in Calls : Return(c))

SpecLive == Init /\ [][Next]_vars /\ TimersFire /\ MicrotasksRun

\* --------------------------------------------------------------- well-formed
TypeOK ==
  /\ ws \in BOOLEAN
  /\ connected \in BOOLEAN
  /\ sock \in {"none", "connecting", "open", "closing", "errored", "closed"}
  /\ tick \in {"idle", "io", "timer", "call"}
  /\ messageHandlers \subseteq DOMAIN reqs
  /\ \A r \in Calls : eventHandlers[r] \in {"none", "chat", "lifecycle", "chat+lifecycle"}
  /\ (tick = "idle") <=> ~MicrotaskPending


\* ==================================================================== claims
Settled(w) == w.status \in {"resolved", "rejected"}
Outcome(w) == <<w.status, w.err, w.by>>
WaitRequest(r) == reqs[waiter[r].req]
WaitAnswered(r) == waiter[r].req \in DOMAIN reqs /\ Settled(WaitRequest(r)) /\ ~WaitRequest(r).react
Registered(r) == eventHandlers[r] # "none"
\* A step that starts a call renumbers the requests it keeps.
StartsCall == \E c \in Calls : call[c].pc = "idle" /\ call'[c].pc # "idle"

C2_HandlerIffUnsettled ==
  \A r \in Calls :
    waiter[r].status \in {"pending", "resolved", "rejected"} =>
      (Registered(r) <=> waiter[r].status = "pending")

\* C2 as amended: the handler is in the registry if and only if the awaitable
\* has not settled and disconnect() has not cleared the registry since the
\* registration; a registered handler always means an unsettled awaitable.
C2_HandlerIffUnsettledAndKept ==
  \A r \in Calls :
    waiter[r].status \in {"pending", "resolved", "rejected"} =>
      (Registered(r) <=> (waiter[r].status = "pending" /\ ~waiter[r].abandoned))

\* A waiter left unsettled without its handler by disconnect().
C2_Witness ==
  \E r \in Calls :
    waiter[r].status = "pending" /\ waiter[r].abandoned /\ ~Registered(r)

\* C3: the text a resolving sendPrompt returns is the concatenation, in delivery
\* order, of the text of the deltas dispatched for its run between the
\* registration of its chat handler and the settlement of its waiter.
C3_TextIsTheDeltas ==
  \A c \in Calls : call[c].pc = "done" => call[c].text = Expected(c)

\* C4: a lifecycle end dispatched while the run's handler is registered settles
\* the waiter as success and deregisters the handler in that step; the reaction
\* to an agent.wait answer (ok or error) that comes afterwards changes neither
\* the waiter nor the registry.
C4_EndSettlesOnce ==
  [][\A r \in Calls :
       /\ (RecvAgent(r, "end", "") /\ Registered(r)) =>
            /\ waiter'[r].status = "resolved"
            /\ waiter'[r].by = "end"
            /\ waiter'[r].timer = NoTimer
            /\ ~Registered(r)'
       /\ (ReactWait(r) /\ waiter[r].by = "end") =>
            /\ waiter'[r] = waiter[r]
            /\ eventHandlers' = eventHandlers]_vars

\* A waiter resolved by lifecycle end whose agent.wait was answered afterwards.
C4_Witness ==
  \E r \in Calls :
    /\ waiter[r].by = "end"
    /\ WaitAnswered(r)
    /\ WaitRequest(r).by = "response"

\* C5: the reaction to an ok agent.wait response settles the waiter as success
\* only when the run's handler is registered at that moment (then it also
\* deregisters it and cancels the deadline); with the handler gone it settles
\* nothing, deregisters nothing and changes no timer.
C5_WaitSuccessNeedsHandler ==
  [][\A r \in Calls :
       (ReactWait(r) /\ WaitRequest(r).status = "resolved") =>
         IF Registered(r)
           THEN /\ waiter'[r].status = "resolved"
                /\ waiter'[r].by = "wait"
                /\ waiter'[r].timer = NoTimer
                /\ ~Registered(r)'
           ELSE /\ waiter' = waiter
                /\ eventHandlers' = eventHandlers
                /\ \A i \in DOMAIN reqs : reqs'[i].timer = reqs[i].timer]_vars

\* The deadline rejected the waiter, and the ok agent.wait response that came
\* later has been reacted to.
C5_Witness ==
  \E r \in Calls :
    /\ waiter[r].by = "deadline"
    /\ WaitAnswered(r)
    /\ WaitRequest(r).status = "resolved"

\* C6: the reaction to a failed agent.wait request rejects the waiter with that
\* failure only when the run's handler is registered at that moment; otherwise
\* the failure is ignored and the run's outcome stays as it was.
C6_WaitFailureNeedsHandler ==
  [][\A r \in Calls :
       (ReactWait(r) /\ WaitRequest(r).status = "rejected") =>
         IF Registered(r)
           THEN /\ waiter'[r].status = "rejected"
                /\ waiter'[r].err = WaitRequest(r).err
                /\ waiter'[r].timer = NoTimer
                /\ ~Registered(r)'
           ELSE /\ waiter' = waiter
                /\ eventHandlers' = eventHandlers]_vars

\* The run's outcome was decided by lifecycle end, and the agent.wait request
\* that failed afterwards has been reacted to.
C6_Witness ==
  \E r \in Calls :
    /\ waiter[r].by = "end"
    /\ WaitAnswered(r)
    /\ WaitRequest(r).status = "rejected"

\* C7: when the agent-wait deadline elapses the waiter is rejected with "Agent
\* wait timeout after <N>ms" and its handler is deregistered; a lifecycle event
\* for that run dispatched afterwards changes nothing the client holds.
C7_DeadlineRejects ==
  [][\A r \in Calls :
       /\ AgentWaitDeadline(r) =>
            /\ waiter[r].status = "pending"
            /\ waiter'[r].status = "rejected"
            /\ waiter'[r].err = ErrAgentWaitTimeout
            /\ ~Registered(r)'
       /\ (\E phase \in Phases, e \in AgentErrors : RecvAgent(r, phase, e))
            /\ waiter[r].by = "deadline" => UNCHANGED clientVars]_vars

\* A lifecycle event has just been dispatched for a run whose waiter the
\* deadline had rejected.
C7_Witness == last = Step("agent", "deadline", FALSE)

\* C8: a lifecycle error dispatched while the run's handler is registered
\* rejects the waiter with the error text the event carries ("Agent error" when
\* it carries none), cancels the deadline timer and deregisters the handler.
C8_ErrorRejects ==
  [][\A r \in Calls, e \in AgentErrors :
       (RecvAgent(r, "error", e) /\ Registered(r)) =>
         /\ waiter[r].status = "pending"
         /\ waiter'[r].status = "rejected"
         /\ waiter'[r].err = IF e # "" THEN e ELSE ErrAgent
         /\ waiter'[r].timer = NoTimer
         /\ ~Registered(r)']_vars

\* A waiter rejected with the text of a lifecycle error.
C8_Witness ==
  \E r \in Calls :
    /\ waiter[r].by = "error"
    /\ waiter[r].err = "boom"
    /\ waiter[r].timer = NoTimer
    /\ ~Registered(r)

\* C9: a request is settled once, by its response or its timeout, whichever is
\* first: the first matching response settles it, cancels its timer and removes
\* its entry; a settled request never changes again, and a later response with
\* its id changes nothing the client holds.
C9_RequestSettlesOnce ==
  [][\A id \in DOMAIN reqs :
       /\ (\E ok \in BOOLEAN, e \in ServerErrors :
             \E p \in Payloads(reqs[id].method, reqs[id].call) :
               RecvResponse(id, ok, e, p) /\ id \in messageHandlers) =>
            /\ reqs[id].status = "pending"
            /\ Settled(reqs'[id])
            /\ reqs'[id].by = "response"
            /\ reqs'[id].timer = NoTimer
            /\ id \notin messageHandlers'
       /\ (Settled(reqs[id]) /\ ~StartsCall) =>
            /\ reqs'[id].status = reqs[id].status
            /\ reqs'[id].by = reqs[id].by
            /\ reqs'[id].timer = NoTimer
            /\ id \notin messageHandlers'
       /\ (RecvResponse(id, TRUE, "", NoPayload) /\ Settled(reqs[id])) =>
            UNCHANGED clientVars]_vars

\* A response has just been dispatched for a request its first response had settled.
C9_Witness == last = Step("res", "response", FALSE)

\* C10: when a request's timer fires the request is rejected with "Request
\* timeout for <method>" and its entry leaves the pending-request map in that
\* step; a response with its id dispatched later finds no entry, changes nothing
\* and leaves the request timed out.
C10_TimeoutRemovesEntry ==
  [][\A id \in DOMAIN reqs :
       /\ RequestTimeout(id) =>
            /\ reqs[id].status = "pending"
            /\ reqs'[id].status = "rejected"
            /\ reqs'[id].err = ErrRequestTimeout(reqs[id].method)
            /\ id \notin messageHandlers'
       /\ (RecvResponse(id, TRUE, "", NoPayload) /\ reqs[id].by = "timeout") =>
            /\ id \notin messageHandlers
            /\ UNCHANGED clientVars]_vars

\* A response has just been dispatched for a request that had timed out.
C10_Witness == last = Step("res", "timeout", FALSE)

TokenFields == {"total", "input", "output"}

\* What the server reported for the session in a sessions.list response.
Reported(q) == Snapshot(q.res.sessions)

\* The reported counters are not below the before-snapshot of call c.
NotDecreased(c, q) == \A f \in TokenFields : call[c].start[f] <= Reported(q)[f]

\* C11 as claimed: the token delta of a resolving sendPrompt is non-negative in
\* every field whenever the counters the server reports for the session did
\* not decrease between the two sessions.list queries.
C11_DeltaNonNegative ==
  [][\A c \in Calls :
       (/\ AfterEndTokens(c)
        /\ reqs[call[c].req].status = "resolved" => NotDecreased(c, reqs[call[c].req])) =>
         \A f \in TokenFields : call'[c].tokens[f] >= 0]_vars

\* C11 as amended: the token delta of a resolving sendPrompt is, per field, the
\* after snapshot minus the before snapshot, a snapshot being all zero when its
\* query failed or could not be sent; it is non-negative whenever the after
\* query succeeded and the counters it reports are not below the before snapshot.
C11_DeltaIsAfterMinusBefore ==
  [][\A c \in Calls :
       /\ AfterEndTokens(c) =>
            LET q == reqs[call[c].req]
                after == IF q.status = "resolved" THEN Reported(q) ELSE ZeroSnapshot
            IN /\ call'[c].pc = "done"
               /\ \A f \in TokenFields : call'[c].tokens[f] = after[f] - call[c].start[f]
               /\ (q.status = "resolved" /\ NotDecreased(c, q)) =>
                    \A f \in TokenFields : call'[c].tokens[f] >= 0
       /\ (AfterWait(c) /\ call'[c].pc = "done") =>
            \A f \in TokenFields : call'[c].tokens[f] = 0 - call[c].start[f]]_vars

\* A call that resolved with both snapshots taken from the session's counters.
C11_Witness ==
  \E c \in Calls :
    /\ call[c].pc = "done"
    /\ call[c].start.total = 1
    /\ call[c].tokens.total = 0

\* C12: Authenticated and Failed are terminal handshake states.  Once connect()
\* has failed (rejected connect response, transport error or close, connect
\* timeout) no later frame makes the client connected; once it has succeeded,
\* no later connect response or challenge changes the outcome.
C12_HandshakeTerminal ==
  /\ hs.promise = "rejected" => ~connected
  /\ hs.promise = "resolved" => hs.handshakeComplete /\ hs.err = ""

\* C13: within one connect() call the client transmits at most one connect
\* request, and only in the step that receives the first connect.challenge; a
\* repeated challenge, a rejected handshake, a transport error or a timeout
\* never causes another one.
C13_OneConnectRequest ==
  [][/\ hs'.sent <= 1
     /\ hs'.sent # hs.sent =>
          /\ \E nonce \in Nonces : RecvChallenge(nonce)
          /\ ~hs.challengeReceived
          /\ hs'.challengeReceived
          /\ hs'.sent = hs.sent + 1]_vars

\* The connect request was sent once and the handshake was then rejected.
C13_Witness == hs.sent = 1 /\ hs.challengeReceived /\ hs.promise = "rejected"

\* connect() has been called and has neither resolved nor rejected.
Connecting == hs.promise = "pending"

\* C14: a transport error, a close, or a connect response with ok=false that
\* comes before the handshake completes makes connect() fail in that step, with
\* the transport error, the close error or the server's error message ("Connect
\* handshake failed" when the response carries none), and leaves the client
\* not connected.
C14_HandshakeFailures ==
  [][/\ SockError /\ ~hs.handshakeComplete =>
          /\ hs'.promise = "rejected"
          /\ Connecting => hs'.err = ErrTransport
          /\ ~connected'
     /\ SockClose /\ ~hs.handshakeComplete =>
          /\ hs'.promise = "rejected"
          /\ Connecting => hs'.err = ErrClosed
          /\ ~connected'
     /\ \A e \in ServerErrors :
          RecvConnectRes(FALSE, e) /\ ~hs.handshakeComplete =>
            /\ hs'.promise = "rejected"
            /\ Connecting => hs'.err = IF e # "" THEN e ELSE ErrHandshake
            /\ ~connected'
            /\ ~hs'.handshakeComplete]_vars

\* connect() has failed with the message of the server's ok=false response.
C14_Witness == hs.promise = "rejected" /\ hs.err = "denied" /\ ~connected

\* C15: when the connect timer fires the handshake has not completed (with or
\* without a challenge), connect() fails with the timeout error and the
\* transport is closed; once connect() has succeeded or failed the timer is
\* cancelled and the outcome never changes.
C15_ConnectTimer ==
  [][/\ ConnectTimeout =>
          /\ Connecting /\ ~hs.handshakeComplete
          /\ hs'.promise = "rejected"
          /\ hs'.err = ErrConnectTimeout
          /\ sock' \in {"closing", "closed"}
     /\ hs.promise \in {"resolved", "rejected"} =>
          /\ hs.timer = NoTimer /\ hs'.timer = NoTimer
          /\ hs'.promise = hs.promise
          /\ hs'.err = hs.err]_vars

\* connect() timed out after the connect request had been sent.
C15_Witness ==
  /\ hs.promise = "rejected"
  /\ hs.err = ErrConnectTimeout
  /\ hs.sent = 1
  /\ sock \in {"closing", "closed"}

\* C16: the disconnect() step settles nothing: every request and every run
\* waiter keeps its status, error and timer, connect()'s promise is untouched,
\* and only the entries of the two registries are removed.
C16_DisconnectSettlesNothing ==
  [][Disconnect =>
       /\ reqs' = reqs
       /\ \A r \in Calls :
            /\ Outcome(waiter'[r]) = Outcome(waiter[r])
            /\ waiter'[r].timer = waiter[r].timer
            /\ waiter'[r].react = waiter[r].react
       /\ hs' = hs
       /\ call' = call
       /\ ws => messageHandlers' = {} /\ \A r \in Calls : ~Registered(r)']_vars

\* disconnect() has run while a run waiter and its agent.wait request were
\* pending: both are still pending, their timers still armed.
C16_Witness ==
  \E r \in Calls :
    /\ waiter[r].abandoned
    /\ waiter[r].status = "pending" /\ waiter[r].timer >= 0
    /\ waiter[r].req \in DOMAIN reqs
    /\ WaitRequest(r).status = "pending" /\ WaitRequest(r).timer >= 0
    /\ messageHandlers = {}

\* disconnect() has run on the client (connect() is called once, so this.ws is
\* null afterwards only through disconnect()).
Disconnected == ~ws /\ hs.promise # "none"

\* A response or event frame is dispatched to handleFrame in this step.
FrameDispatched ==
  \/ \E id \in DOMAIN reqs, ok \in BOOLEAN, e \in ServerErrors :
       \E p \in Payloads(reqs[id].method, reqs[id].call) : RecvResponse(id, ok, e, p)
  \/ \E r \in Calls, phase \in Phases, e \in AgentErrors : RecvAgent(r, phase, e)
  \/ \E r \in Calls, state \in ChatStates : RecvChat(r, state)

\* C17: right after disconnect() on a client that holds a transport both
\* registries are empty and the client is not connected; they stay empty, and a
\* response or event frame dispatched afterwards runs no handler: no request,
\* no waiter and no accumulated text changes.
C17_DisconnectEmptiesRegistries ==
  [][/\ (Disconnect /\ ws) =>
          /\ messageHandlers' = {}
          /\ \A r \in Calls : ~Registered(r)'
          /\ ~connected' /\ ~ws'
     /\ Disconnected =>
          /\ messageHandlers = {} /\ messageHandlers' = {}
          /\ \A r \in Calls : ~Registered(r) /\ ~Registered(r)'
     /\ (Disconnected /\ FrameDispatched) =>
          UNCHANGED <<reqs, waiter, messageHandlers, eventHandlers, accumulatedResponse>>]_vars

\* After disconnect(), the response to a request that is still pending has
\* been dispatched and found no entry.
C17_Witness == Disconnected /\ last = Step("res", "", FALSE)

\* ============================================== the automated runner's client
\* The second OpenClawClient of the repository (the automated test runner).  It
\* has no challenge handshake, no agent.wait and no session snapshots: connect()
\* resolves on 'open', sendPrompt() sends chat.send and resolves on the run's
\* final chat event.  It is modelled on the variables of the same name; hs holds
\* connect()'s promise and timer, call the promise, closure and timer of each
\* sendPrompt, and messageHandlers the calls whose chat.send entry is present.
RunnerConnectTicks == 1   \* connect()'s 10000 ms timer
RunnerPromptTicks == 2    \* sendPrompt()'s 300000 ms timer

ErrRunnerNotConnected == "Not connected to OpenClaw"
ErrRunnerConnectTimeout == "Connection timeout"
ErrRunnerFailed == "Request failed"
ErrRunnerTimeout == "Request timeout"
ErrRunnerUnknown == "Unknown error"
ErrRunnerAborted == "Request aborted"
ChatErrors == {"bad", ""}             \* "" is a chat error event without errorMessage

RunnerIdle ==
  [promise |-> "none", err |-> "", runId |-> 0, fullResponse |-> "", response |-> "",
   timer |-> NoTimer, seq |-> 0, stopped |-> FALSE]

RunnerInit ==
  /\ ws = FALSE
  /\ sock = "none"
  /\ connected = FALSE
  /\ hs = [challengeReceived |-> FALSE, handshakeComplete |-> FALSE, timer |-> NoTimer,
           promise |-> "none", err |-> "", sent |-> 0, version |-> "", nonce |-> ""]
  /\ reqs = <<>>
  /\ messageHandlers = {}
  /\ eventHandlers = [r \in Calls |-> "none"]
  /\ waiter = [r \in Calls |-> NoWaiter]
  /\ call = [c \in Calls |-> RunnerIdle]
  /\ accumulatedResponse = ""
  /\ tick = "idle"
  /\ last = Quiet

\* resolve()/reject() of sendPrompt's promise.
RunnerSettle(cl, status, err, response) ==
  IF cl.promise = "pending"
    THEN [cl EXCEPT !.promise = status, !.err = err, !.response = response]
    ELSE cl

\* connect(): open the socket and start the 10 s timer.
RunnerConnect ==
  /\ hs.promise = "none"
  /\ ws' = TRUE
  /\ sock' = "connecting"
  /\ hs' = [hs EXCEPT !.promise = "pending", !.timer = RunnerConnectTicks]
  /\ last' = Quiet
  /\ UNCHANGED <<connected, reqs, messageHandlers, eventHandlers, waiter, call,
                 accumulatedResponse, tick>>

\* ws 'open': connected, the connect frame is sent, connect() resolves.
RunnerOpen ==
  /\ sock = "connecting"
  /\ sock' = "open"
  /\ connected' = TRUE
  /\ hs' = SettleConnect([hs EXCEPT !.sent = IF ws THEN @ + 1 ELSE @], "resolved", "")
  /\ last' = Quiet
  /\ UNCHANGED <<ws, reqs, messageHandlers, eventHandlers, waiter, call,
                 accumulatedResponse, tick>>

\* ws 'error': reject(error).
RunnerError ==
  /\ sock \in {"connecting", "open"}
  /\ sock' = "errored"
  /\ hs' = SettleConnect(hs, "rejected", ErrTransport)
  /\ last' = Quiet
  /\ UNCHANGED <<ws, connected, reqs, messageHandlers, eventHandlers, waiter, call,
                 accumulatedResponse, tick>>

\* ws 'close': connected = false.
RunnerClose ==
  /\ sock \in {"connecting", "open", "closing", "errored"}
  /\ sock' = "closed"
  /\ connected' = FALSE
  /\ last' = Quiet
  /\ UNCHANGED <<ws, hs, reqs, messageHandlers, eventHandlers, waiter, call,
                 accumulatedResponse, tick>>

\* The 10 s timer of connect(): it is never cancelled.
RunnerConnectTimeout ==
  /\ hs.timer = 0
  /\ hs' = IF ~connected
             THEN SettleConnect([hs EXCEPT !.timer = NoTimer], "rejected", ErrRunnerConnectTimeout)
             ELSE [hs EXCEPT !.timer = NoTimer]
  /\ last' = Quiet
  /\ UNCHANGED <<ws, sock, connected, reqs, messageHandlers, eventHandlers, waiter, call,
                 accumulatedResponse, tick>>

\* sendPrompt(prompt): throw when not connected, else register the chat.send
\* entry, send the frame and start the 5 min timer.
RunnerSendPrompt(c) ==
  /\ call[c].promise = "none"
  /\ IF ~ws \/ ~connected
       THEN /\ call' = [call EXCEPT ![c] = [@ EXCEPT !.promise = "rejected",
                                                      !.err = ErrRunnerNotConnected]]
            /\ messageHandlers' = messageHandlers
       ELSE /\ call' = [call EXCEPT ![c] = [@ EXCEPT !.promise = "pending",
                                                      !.timer = RunnerPromptTicks]]
            /\ messageHandlers' = messageHandlers \cup {c}
  /\ last' = Quiet
  /\ UNCHANGED <<ws, sock, connected, hs, reqs, eventHandlers, waiter,
                 accumulatedResponse, tick>>

\* The text a delta contributes to fullResponse.
RunnerExtractText(m) ==
  IF m.shape = "string" THEN m.text
  ELSE IF m.shape = "content" /\ m.text # "" THEN m.text
  ELSE IF m.shape = "blocks" THEN BlocksText(m.blocks)
  ELSE ""

\* Whether eventHandler deletes its own entry on an event of this state.
RunnerDeletesOnFinalOnly(state) == state = "final"

RunnerDeletes(state) == state \in {"final", "error", "aborted"}

\* sendPrompt's eventHandler, run on a chat event of its run.
RunnerEventHandler(cl, state, m, e) ==
  IF state = "delta" /\ m.shape # "none"
    THEN [cl EXCEPT !.fullResponse = @ \o RunnerExtractText(m)]
  ELSE IF state = "final" THEN RunnerSettle(cl, "resolved", "", cl.fullResponse)
  ELSE IF state = "error"
    THEN RunnerSettle(cl, "rejected", IF e # "" THEN e ELSE ErrRunnerUnknown, "")
  ELSE IF state = "aborted" THEN RunnerSettle(cl, "rejected", ErrRunnerAborted, "")
  ELSE cl

\* The handler sendPrompt registers for its chat.send response.
RunnerResponseHandler(cl, ok, e, runId) ==
  IF ~ok
    THEN RunnerSettle(cl, "rejected", IF e # "" THEN e ELSE ErrRunnerFailed, "")
    ELSE [cl EXCEPT !.runId = runId]

\* The message handler on a frame with ok and id: the response of call c.
RunnerResponse(c, ok, e, runId) ==
  /\ sock \in {"open", "closing"}
  /\ call[c].promise # "none"
  /\ ok => e = ""
  /\ ~ok => runId = 0
  /\ runId \in {0, c}
  /\ c \notin messageHandlers => ok /\ runId = 0
  /\ IF c \in messageHandlers
       THEN /\ call' = [call EXCEPT ![c] = RunnerResponseHandler(@, ok, e, runId)]
            /\ eventHandlers' = IF ok /\ runId # 0
                                  THEN [eventHandlers EXCEPT ![runId] = "chat"]
                                  ELSE eventHandlers
            /\ messageHandlers' = messageHandlers \ {c}
       ELSE UNCHANGED <<call, eventHandlers, messageHandlers>>
  /\ last' = Step("res", "", c \in messageHandlers)
  /\ UNCHANGED <<ws, sock, connected, hs, reqs, waiter, accumulatedResponse, tick>>

\* The message handler on a chat event for run r.
RunnerChat(r, state, e) ==
  /\ sock \in {"open", "closing"}
  /\ call[r].promise # "none"
  /\ state # "error" => e = ""
  /\ state = "delta" => call[r].seq < MaxDeltas
  /\ LET has == eventHandlers[r] # "none"
         m == IF state = "delta" THEN Script(call[r].seq + 1) ELSE MsgNone
         handled == IF has THEN RunnerEventHandler(call[r], state, m, e) ELSE call[r]
     IN /\ call' = [call EXCEPT ![r] =
                      [handled EXCEPT !.seq = IF state = "delta" THEN @ + 1 ELSE @,
                                      !.stopped = @ \/ (has /\ state # "delta")]]
        /\ eventHandlers' = IF has /\ RunnerDeletes(state)
                              THEN [eventHandlers EXCEPT ![r] = "none"]
                              ELSE eventHandlers
        /\ last' = Step("chat", state, has)
  /\ UNCHANGED <<ws, sock, connected, hs, reqs, messageHandlers, waiter,
                 accumulatedResponse, tick>>

\* The 5 min timer of sendPrompt: delete the run's handler, reject.
RunnerTimeout(c) ==
  /\ call[c].timer = 0
  /\ call' = [call EXCEPT ![c] =
                RunnerSettle([@ EXCEPT !.timer = NoTimer], "rejected", ErrRunnerTimeout, "")]
  /\ eventHandlers' = IF call[c].runId # 0
                        THEN [eventHandlers EXCEPT ![call[c].runId] = "none"]
                        ELSE eventHandlers
  /\ last' = Quiet
  /\ UNCHANGED <<ws, sock, connected, hs, reqs, messageHandlers, waiter,
                 accumulatedResponse, tick>>

\* disconnect(): close the socket and forget it; the registries are left alone.
RunnerDisconnect ==
  /\ hs.promise # "none"
  /\ ws
  /\ sock' = CloseSock(ws, sock)
  /\ ws' = FALSE
  /\ last' = Quiet
  /\ UNCHANGED <<connected, hs, reqs, messageHandlers, eventHandlers, waiter, call,
                 accumulatedResponse, tick>>

RunnerTimers == {hs.timer} \cup {call[c].timer : c \in Calls}

\* One tick of time passes for the runner's timers.
RunnerTick ==
  /\ 0 \notin RunnerTimers
  /\ \E t \in RunnerTimers : t > 0
  /\ hs' = [hs EXCEPT !.timer = Elapse(@)]
  /\ call' = [c \in Calls |-> [call[c] EXCEPT !.timer = Elapse(@)]]
  /\ last' = Quiet
  /\ UNCHANGED <<ws, sock, connected, reqs, messageHandlers, eventHandlers, waiter,
                 accumulatedResponse, tick>>

RunnerNext ==
  \/ RunnerConnect
  \/ RunnerOpen
  \/ RunnerError
  \/ RunnerClose
  \/ RunnerConnectTimeout
  \/ \E c \in Calls : RunnerSendPrompt(c)
  \/ \E c \in Calls, ok \in BOOLEAN, e \in ServerErrors, runId \in {0} \cup Calls :
       RunnerResponse(c, ok, e, runId)
  \/ \E r \in Calls, state \in ChatStates, e \in ChatErrors : RunnerChat(r, state, e)
  \/ \E c \in Calls : RunnerTimeout(c)
  \/ RunnerDisconnect
  \/ RunnerTick

SpecRunner == RunnerInit /\ [][RunnerNext]_vars

EventFor(a) ==
  \/ \E phase \in Phases, e \in AgentErrors : RecvAgent(a, phase, e)
  \/ \E state \in ChatStates : RecvChat(a, state)

\* An event frame carrying a runId that is no call's is dispatched in this step.
EventForOther ==
  \E event \in {"chat", "agent"}, phase \in Phases \cup ChatStates : RecvOther(event, phase)

\* The run wait of a fails in this step: lifecycle error, deadline, or the
\* reaction to its failed agent.wait request.
WaitFails(a) ==
  \/ \E e \in AgentErrors : RecvAgent(a, "error", e)
  \/ AgentWaitDeadline(a)
  \/ ReactWait(a) /\ WaitRequest(a).status = "rejected"

\* The waiter and the handler of every run but a are left as they are.
OthersUntouched(a) ==
  \A b \in Calls \ {a} : waiter'[b] = waiter[b] /\ eventHandlers'[b] = eventHandlers[b]

Untouched ==
  UNCHANGED <<messageHandlers, eventHandlers, connected, accumulatedResponse, reqs, waiter, hs>>

\* C20: a response frame whose id has no pending entry, an event frame carrying
\* a runId with no registered handler, and an event frame of an unrouted name
\* change neither the pending-request map, the event-handler map, the connected
\* flag nor the accumulated text, and reject nothing.
C20_DroppedFramesChangeNothing ==
  [][/\ \A id \in DOMAIN reqs :
          (RecvResponse(id, TRUE, "", NoPayload) /\ id \notin messageHandlers) => Untouched
     /\ \A r \in Calls : (EventFor(r) /\ ~Registered(r)) => Untouched
     /\ EventForOther => Untouched
     /\ ((\E nonce \in Nonces : RecvChallenge(nonce)) /\ hs.challengeReceived) => Untouched
     /\ ((\E ok \in BOOLEAN, e \in ServerErrors : RecvConnectRes(ok, e))
           /\ hs.handshakeComplete) => Untouched]_vars

\* A lifecycle event has just been dispatched for a run whose handler was
\* never registered or was cleared before the run settled.
C20_Witness == last = Step("agent", "", FALSE)

\* A request fails in this step: its timer fires, or its ok=false response is
\* dispatched while its entry is present.
RequestFails(id) ==
  \/ RequestTimeout(id)
  \/ \E e \in ServerErrors : RecvResponse(id, FALSE, e, NoPayload) /\ id \in messageHandlers

\* C21: a request that times out or is answered with ok=false rejects only its
\* own awaitable: in that step the connected flag, the transport, connect()'s
\* promise, every other request and its entry, every run waiter and every
\* registered run handler are left as they are.
C21_FailureRejectsOnlyItself ==
  [][\A id \in DOMAIN reqs :
       RequestFails(id) =>
         /\ reqs[id].status = "pending" /\ reqs'[id].status = "rejected"
         /\ connected' = connected /\ ws' = ws /\ sock' = sock /\ hs' = hs
         /\ \A j \in DOMAIN reqs \ {id} : reqs'[j] = reqs[j]
         /\ messageHandlers' = messageHandlers \ {id}
         /\ eventHandlers' = eventHandlers
         /\ waiter' = waiter
         /\ call' = call]_vars

\* A request has just failed on a connected client while another request is
\* still pending with its entry in the map.
C21_Witness ==
  \E id \in DOMAIN reqs, j \in DOMAIN reqs :
    /\ id # j
    /\ reqs[id].status = "rejected" /\ reqs[id].react
    /\ reqs[j].status = "pending" /\ j \in messageHandlers
    /\ connected /\ sock = "open"

\* The sessions.list query q succeeded and lists the client's session key.
ListsSession(q) ==
  q.status = "resolved" /\ \E i \in DOMAIN q.res.sessions : q.res.sessions[i].sessionKey = SessionKey

\* t holds the counters of a session that q lists under the client's key.
CountersOf(q, t) ==
  \E i \in DOMAIN q.res.sessions :
    /\ q.res.sessions[i].sessionKey = SessionKey
    /\ t.total = q.res.sessions[i].totalTokens
    /\ t.input = q.res.sessions[i].inputTokens
    /\ t.output = q.res.sessions[i].outputTokens

\* What getSessionTokens must return for its settled query q.
Degrades(q, t) == IF ListsSession(q) THEN CountersOf(q, t) ELSE t = ZeroSnapshot

\* C22: getSessionTokens never fails.  It returns the matching session's
\* counters when sessions.list succeeded and lists the client's session key,
\* and the all-zero snapshot when no listed session matches, when the query was
\* rejected or timed out, and when it could not be sent; sendPrompt goes on to
\* its next statement in every case (a failure there is chat.send's own).
C22_SessionTokensNeverFail ==
  [][\A c \in Calls :
       /\ AfterStartTokens(c) =>
            /\ Degrades(reqs[call[c].req], call'[c].start)
            /\ call'[c].pc \in {"chat", "failed"}
            /\ call'[c].pc = "failed" => ~IsConnected /\ call'[c].err = ErrNotConnected
       /\ AfterEndTokens(c) =>
            /\ call'[c].pc = "done"
            /\ \E t \in {ZeroSnapshot, Session(SessionKey, 1)} \cup
                        {[total |-> a, input |-> b, output |-> 0] : a, b \in 0..1} :
                 /\ Degrades(reqs[call[c].req], t)
                 /\ call'[c].tokens = TokenDelta(t, call[c].start)
       /\ (AfterWait(c) /\ waiter[c].status = "resolved" /\ ~IsConnected) =>
            /\ call'[c].pc = "done"
            /\ call'[c].tokens = TokenDelta(ZeroSnapshot, call[c].start)
       /\ (SendPrompt(c) /\ ~IsConnected) =>
            /\ call'[c].start = ZeroSnapshot
            /\ call'[c].err = ErrNotConnected]_vars

\* The before-snapshot query timed out and sendPrompt went on to send chat.send
\* with an all-zero snapshot.
C22_Witness ==
  \E c \in Calls :
    /\ call[c].pc = "chat"
    /\ call[c].start = ZeroSnapshot
    /\ call[c].req > 1
    /\ reqs[call[c].req - 1].method = "sessions.list"
    /\ reqs[call[c].req - 1].by = "timeout"

\* ===================================================== the signature payload
\* The handshake with what sendConnectRequest signs.  hs also holds the
\* client's device id and gateway token (fixed at construction), the nonce of
\* the challenge received, and the payload parts, the joined payload and the
\* device block of the connect request built from them.
DeviceIds == {"d1", "d2"}                 \* sha256 of the generated public key
Tokens == {"", "tok", "t|k"}              \* config.gatewayToken || ''
ChallengeNonces == {"", "abc", "n|1"}     \* frame.payload?.nonce; "" is none
SignTimes == {0, 1234}                    \* Date.now()

clientId == "openclaw-control-ui"
clientMode == "ui"
role == "operator"
scopes == <<"operator.read", "operator.write", "operator.admin">>

\* Array.prototype.join
RECURSIVE Join(_, _)
Join(parts, sep) ==
  IF parts = <<>> THEN ""
  ELSE IF Len(parts) = 1 THEN parts[1]
  ELSE parts[1] \o sep \o Join(Tail(parts), sep)

\* payloadParts, with the nonce pushed when there is one.
PayloadParts(deviceId, signedAt, token, nonce) ==
  LET base == <<SignVersion(nonce), deviceId, clientId, clientMode, role,
                Join(scopes, ","), ToString(signedAt), token>>
  IN IF nonce # "" THEN Append(base, nonce) ELSE base

SignPayload(deviceId, signedAt, token, nonce) ==
  Join(PayloadParts(deviceId, signedAt, token, nonce), "|")

\* generateDeviceIdentity(): the device id is the hash of the public key that
\* is sent beside it.
PublicKeyOf(deviceId) == IF deviceId = "d1" THEN "k1" ELSE "k2"

\* The signedAt of the device block: the constant the payload was built from.
FrameSignedAtLater(signedAt) == signedAt + 1

FrameSignedAt(signedAt) == signedAt

\* connectFrame.params, as JSON.stringify transmits it: an undefined auth or
\* nonce is left out (<<>>), a value is sent as it is (<<v>>).
ConnectFrame(h, nonce, signedAt) ==
  [clientId |-> clientId, mode |-> clientMode, role |-> role, scopes |-> scopes,
   auth |-> IF h.token # "" THEN <<h.token>> ELSE <<>>,
   device |-> [id |-> h.deviceId, publicKey |-> h.publicKey,
               signedAt |-> FrameSignedAt(signedAt),
               nonce |-> IF nonce # "" THEN <<nonce>> ELSE <<>>]]

SignInit ==
  /\ ws = FALSE
  /\ sock = "none"
  /\ connected = FALSE
  /\ \E d \in DeviceIds, t \in Tokens :
       hs = [challengeReceived |-> FALSE, handshakeComplete |-> FALSE, timer |-> NoTimer,
             promise |-> "none", err |-> "", sent |-> 0, version |-> "", nonce |-> "",
             deviceId |-> d, token |-> t, challenge |-> "", signedAt |-> 0,
             parts |-> <<>>, payload |-> "", deviceSignedAt |-> 0,
             publicKey |-> PublicKeyOf(d), frame |-> <<>>]
  /\ reqs = <<>>
  /\ messageHandlers = {}
  /\ eventHandlers = [r \in Calls |-> "none"]
  /\ waiter = [r \in Calls |-> NoWaiter]
  /\ call = [c \in Calls |-> IdleCall]
  /\ accumulatedResponse = ""
  /\ tick = "idle"
  /\ last = Quiet

\* sendConnectRequest(nonce) at time signedAt: the payload that is signed and
\* the connect frame, whose device block carries signedAt and the nonce.
SignedConnectRequest(h, nonce, signedAt) ==
  LET parts == PayloadParts(h.deviceId, signedAt, h.token, nonce)
      sent == SendConnectRequest(h, nonce)
  IN [sent EXCEPT !.version = parts[1],
                  !.signedAt = signedAt,
                  !.parts = parts,
                  !.payload = SignPayload(h.deviceId, signedAt, h.token, nonce),
                  !.deviceSignedAt = IF sent.sent > h.sent THEN signedAt ELSE @,
                  !.frame = IF sent.sent > h.sent
                              THEN <<ConnectFrame(h, nonce, signedAt)>> ELSE @]

\* A connect.challenge event frame, with or without a nonce.
RecvSignedChallenge(nonce, signedAt) ==
  /\ CanDeliver
  /\ hs.promise # "none"
  /\ IF FirstChallenge(hs)
       THEN hs' = SignedConnectRequest([hs EXCEPT !.challengeReceived = TRUE,
                                                  !.challenge = nonce], nonce, signedAt)
       ELSE hs' = hs
  /\ last' = Quiet
  /\ UNCHANGED <<ws, sock, connected, reqs, messageHandlers, eventHandlers, waiter, call,
                 accumulatedResponse, tick>>

SignNext ==
  \/ Connect
  \/ ConnectTimeout
  \/ SockOpen
  \/ SockError
  \/ SockClose
  \/ \E nonce \in ChallengeNonces, signedAt \in SignTimes : RecvSignedChallenge(nonce, signedAt)
  \/ \E ok \in BOOLEAN, e \in ServerErrors : RecvConnectRes(ok, e)
  \/ Disconnect
  \/ Tick

SpecSign == SignInit /\ [][SignNext]_vars

\* C23: the signed payload is the pipe-joined tuple version | deviceId |
\* clientId | clientMode | role | comma-joined scopes | signedAt | token, with
\* the nonce as a ninth field exactly when version is "v2"; version is "v2"
\* exactly when the challenge supplied a nonce and "v1" otherwise; the device
\* block of the connect request carries the challenge's nonce and the signedAt
\* that was signed.
C23_SignedPayload ==
  hs.challengeReceived =>
    /\ hs.version \in {"v1", "v2"}
    /\ hs.version = "v2" <=> hs.challenge # ""
    /\ Len(hs.parts) = IF hs.version = "v2" THEN 9 ELSE 8
    /\ SubSeq(hs.parts, 1, 8) =
         <<hs.version, hs.deviceId, "openclaw-control-ui", "ui", "operator",
           "operator.read,operator.write,operator.admin", ToString(hs.signedAt), hs.token>>
    /\ hs.version = "v2" => hs.parts[9] = hs.challenge
    /\ hs.payload =
         hs.version \o "|" \o hs.deviceId
           \o "|openclaw-control-ui|ui|operator|operator.read,operator.write,operator.admin|"
           \o ToString(hs.signedAt) \o "|" \o hs.token
           \o (IF hs.version = "v2" THEN "|" \o hs.challenge ELSE "")
    /\ hs.sent = 1 => hs.nonce = hs.challenge /\ hs.deviceSignedAt = hs.signedAt

\* A connect request signed on the legacy path: the challenge carried no nonce,
\* the payload has eight fields and an empty token.
C23_Witness ==
  /\ hs.sent = 1
  /\ hs.challenge = ""
  /\ hs.payload = "v1|d1|openclaw-control-ui|ui|operator|operator.read,operator.write,operator.admin|1234|"

\* Call c is between its accumulator reset and its return.
Collecting(c) == call[c].pc \in {"chat", "wait", "after"}

Outstanding == {i \in DOMAIN reqs : reqs[i].status = "pending"}

\* A step in which sendRequest registers an entry.
Issues ==
  \E c \in Calls :
    \/ SendPrompt(c) /\ IsConnected
    \/ AfterStartTokens(c) /\ IsConnected
    \/ AfterChatSend(c) /\ call'[c].pc = "wait" /\ IsConnected
    \/ AfterWait(c) /\ call'[c].pc = "after"

\* C25: no two outstanding requests share a correlation id, and every entry
\* of the pending-request map belongs to exactly one request, whose awaitable
\* has not settled.  The id a request is issued under is the id of no request
\* the client still knows, and its entry is the only one the step adds.
C25_EntriesAreOutstanding ==
  /\ [](\A id \in messageHandlers : id \in Outstanding)
  /\ [][Issues =>
          /\ Len(reqs') = Cardinality(IF StartsCall THEN Outstanding ELSE DOMAIN reqs) + 1
          /\ reqs'[Len(reqs')].status = "pending"
          /\ Len(reqs') \in messageHandlers'
          /\ Cardinality(messageHandlers') = Cardinality(messageHandlers) + 1]_vars

\* Two requests are outstanding at once, each with its own entry: the
\* agent.wait of a run that lifecycle end has settled and the after-snapshot query.
C25_Witness ==
  \E i \in messageHandlers, j \in messageHandlers :
    /\ i # j
    /\ reqs[i].method = "agent.wait" /\ reqs[i].status = "pending"
    /\ reqs[j].method = "sessions.list" /\ reqs[j].status = "pending"

\* C26: every waiter started by waitForAgent eventually settles, given only
\* that timers fire: while it is unsettled its deadline timer is armed,
\* whatever is or is not delivered and whether or not disconnect() has run, so
\* it settles no later than its deadline.
C26_WaiterSettles ==
  /\ [](\A r \in Calls : waiter[r].status = "pending" => waiter[r].timer >= 0)
  /\ \A r \in Calls : (waiter[r].status = "pending") ~> Settled(waiter[r])

\* A waiter that disconnect() left without its handler has been rejected by
\* its deadline while its agent.wait request was still unanswered.
C26_Witness ==
  \E r \in Calls :
    /\ waiter[r].abandoned
    /\ waiter[r].by = "deadline"
    /\ waiter[r].req \in DOMAIN reqs
    /\ WaitRequest(r).status = "pending"

\* The ids a request can be issued under: four requests per sendPrompt call.
RequestIds == 1..(4 * MaxCalls)

Pending(id) == id \in DOMAIN reqs /\ reqs[id].status = "pending"

\* C27: every request issued by sendRequest eventually settles and its entry
\* eventually leaves the pending-request map, given that its timer fires.
\* While it is pending its timer is armed (disconnect() does not cancel it),
\* and when the timer fires the request fails with "Request timeout for
\* <method>" and its entry is gone.
C27_RequestSettles ==
  /\ [](\A id \in DOMAIN reqs : Pending(id) => reqs[id].timer >= 0)
  /\ [][\A id \in DOMAIN reqs :
          RequestTimeout(id) =>
            /\ Pending(id)
            /\ reqs'[id].status = "rejected"
            /\ reqs'[id].err = ErrRequestTimeout(reqs[id].method)
            /\ id \notin messageHandlers']_vars
  /\ \A id \in RequestIds :
       Pending(id) ~> (~Pending(id) /\ id \notin messageHandlers)

\* The agent.wait request of a run that lifecycle end had settled got no
\* answer and has failed with its own timeout.
C27_Witness ==
  \E r \in Calls :
    /\ waiter[r].by = "end"
    /\ waiter[r].req \in DOMAIN reqs
    /\ WaitRequest(r).by = "timeout"
    /\ WaitRequest(r).err = "Request timeout for agent.wait"

\* chat.send of call c has been answered with the run's id and sendPrompt has
\* not yet resumed: the run exists, its handler is not registered.
InWindow(c) ==
  /\ call[c].pc = "chat"
  /\ reqs[call[c].req].react
  /\ reqs[call[c].req].status = "resolved"
  /\ reqs[call[c].req].res.runId = c

\* C28: a lifecycle end dispatched for a run between the dispatch of the
\* chat.send response and the registration of the run's handler is dropped: it
\* changes nothing.  sendPrompt then registers the handler, arms the deadline
\* and sends agent.wait as for any run, and the reaction to the ok agent.wait
\* response settles the waiter as success while the deadline is still armed.
C28_EndBeforeRegistration ==
  [][\A c \in Calls :
       /\ (RecvAgent(c, "end", "") /\ InWindow(c)) =>
            /\ ~Registered(c)
            /\ UNCHANGED clientVars
       /\ (AfterChatSend(c) /\ InWindow(c) /\ last = Step("agent", "", FALSE) /\ IsConnected) =>
            /\ Registered(c)'
            /\ waiter'[c].status = "pending"
            /\ waiter'[c].timer = AgentWaitTicks
            /\ waiter'[c].req \in messageHandlers'
            /\ reqs'[waiter'[c].req].method = "agent.wait"
       /\ (ReactWait(c) /\ WaitRequest(c).status = "resolved" /\ Registered(c)) =>
            /\ waiter[c].status = "pending"
            /\ waiter[c].timer >= 0
            /\ waiter'[c].status = "resolved"
            /\ waiter'[c].by = "wait"
            /\ waiter'[c].timer = NoTimer]_vars

\* The lifecycle end of a run has just been dispatched in the window and dropped.
C28_Witness ==
  \E c \in Calls :
    /\ InWindow(c)
    /\ ~Registered(c)
    /\ waiter[c].status = "none"
    /\ last = Step("agent", "", FALSE)

\* The agent.wait requests transmitted in this step.
WaitSent == {id \in DOMAIN reqs' : reqs'[id].method = "agent.wait" /\ ~StartsCall
                                    /\ id \notin DOMAIN reqs}

\* C29: waitForAgent registers its handler under runId and starts the
\* deadline timer before agent.wait is transmitted, all in one synchronous step:
\* in the state in which agent.wait has been sent the run's lifecycle handler
\* is registered and the deadline is armed, and there is no state, hence no
\* frame dispatch, in which the handler is registered and agent.wait is not sent.
C29_RegisteredBeforeWaitSent ==
  /\ [](\A r \in Calls :
          Registered(r) =>
            /\ eventHandlers[r] = "lifecycle"
            /\ waiter[r].status = "pending"
            /\ waiter[r].req \in DOMAIN reqs
            /\ WaitRequest(r).method = "agent.wait")
  /\ [][\A id \in WaitSent :
          LET r == reqs'[id].call
          IN /\ AfterChatSend(r)
             /\ ~Registered(r)
             /\ waiter[r].status = "none"
             /\ eventHandlers'[r] = "lifecycle"
             /\ waiter'[r].status = "pending"
             /\ waiter'[r].timer = AgentWaitTicks
             /\ waiter'[r].req = id
             /\ id \in messageHandlers'
             /\ reqs'[id].timer = AgentWaitTicks + BufferTicks]_vars

\* agent.wait has just been sent: the handler is registered, the deadline and
\* the request timer are armed, nothing has been dispatched since.
C29_Witness ==
  \E r \in Calls :
    /\ call[r].pc = "wait"
    /\ eventHandlers[r] = "lifecycle"
    /\ waiter[r].status = "pending" /\ waiter[r].timer = AgentWaitTicks
    /\ waiter[r].req \in messageHandlers
    /\ WaitRequest(r).timer = AgentWaitTicks + BufferTicks

\* The requests of the given method transmitted in this step.
Sent(method) ==
  {id \in DOMAIN reqs' :
     /\ reqs'[id].method = method
     /\ IF StartsCall
          THEN id = Len(reqs') /\ Len(reqs') = Cardinality(Outstanding) + 1
          ELSE id \notin DOMAIN reqs}

\* C30: within one sendPrompt call chat.send is sent only once the
\* before-snapshot query has settled; the waiter is started, with the runId of
\* chat.send's response, only once chat.send has resolved; the after-snapshot
\* query is sent only once the waiter has settled as success.  If chat.send or
\* the waiter fails, sendPrompt rejects with that failure, sends nothing in that
\* step and never sends an after-snapshot query.
C30_SendPromptOrder ==
  [][/\ \A id \in Sent("chat.send") :
          LET c == reqs'[id].call
          IN /\ AfterStartTokens(c)
             /\ Settled(reqs[call[c].req]) /\ reqs[call[c].req].method = "sessions.list"
     /\ \A id \in Sent("agent.wait") :
          LET c == reqs'[id].call
          IN /\ AfterChatSend(c)
             /\ reqs[call[c].req].method = "chat.send"
             /\ reqs[call[c].req].status = "resolved"
             /\ reqs[call[c].req].res.runId = c
             /\ waiter[c].status = "none" /\ waiter'[c].status = "pending"
     /\ \A id \in Sent("sessions.list") :
          LET c == reqs'[id].call
          IN \/ SendPrompt(c) /\ call[c].pc = "idle"
             \/ AfterWait(c) /\ waiter[c].status = "resolved"
     /\ \A c \in Calls :
          /\ (AfterChatSend(c) /\ reqs[call[c].req].status = "rejected") =>
               /\ call'[c].pc = "failed"
               /\ call'[c].err = reqs[call[c].req].err
               /\ DOMAIN reqs' = DOMAIN reqs
               /\ waiter'[c].status = "none"
          /\ (AfterWait(c) /\ waiter[c].status = "rejected") =>
               /\ call'[c].pc = "failed"
               /\ call'[c].err = waiter[c].err
               /\ DOMAIN reqs' = DOMAIN reqs
          /\ call[c].pc = "failed" =>
               /\ call'[c].pc \in {"failed", "over"}
               /\ DOMAIN reqs' = DOMAIN reqs]_vars

\* sendPrompt has rejected with the waiter's deadline failure after the
\* before-snapshot query, chat.send and agent.wait: no fourth request was sent.
C30_Witness ==
  \E c \in Calls :
    /\ call[c].pc = "failed"
    /\ call[c].err = ErrAgentWaitTimeout
    /\ Len(reqs) = 3
    /\ reqs[3].method = "agent.wait"

\* connect() has succeeded and neither a transport close nor disconnect() has
\* followed: the client is authenticated.
Authenticated == hs.promise = "resolved" /\ ws /\ sock # "closed"

\* A statement of sendPrompt that calls sendRequest runs in this step.
CallsSendRequest(c) ==
  \/ SendPrompt(c)
  \/ AfterStartTokens(c)
  \/ AfterChatSend(c) /\ reqs[call[c].req].status = "resolved" /\ reqs[call[c].req].res.runId # 0
  \/ AfterWait(c) /\ waiter[c].status = "resolved"

\* C31: sendRequest called while the client is not authenticated (before
\* connect() succeeded, after a failed handshake, after the transport closed,
\* after disconnect()) fails with "Not connected", transmits no frame and adds
\* no entry to the pending-request map; a transport close after authentication
\* fails no outstanding request, and after it a request ends only by its timeout.
C31_NotAuthenticatedFailsFast ==
  [][/\ \A c \in Calls :
          (CallsSendRequest(c) /\ ~Authenticated) =>
            /\ \A m \in {"sessions.list", "chat.send", "agent.wait"} : Sent(m) = {}
            /\ Cardinality(messageHandlers') <= Cardinality(messageHandlers)
            /\ AfterStartTokens(c) => call'[c].pc = "failed" /\ call'[c].err = ErrNotConnected
            /\ AfterChatSend(c) => waiter'[c].status = "rejected" /\ waiter'[c].err = ErrNotConnected
     /\ SockClose => reqs' = reqs /\ messageHandlers' = messageHandlers
     /\ \A id \in DOMAIN reqs :
          (sock = "closed" /\ Pending(id) /\ ~Pending(id)' /\ ~StartsCall) => RequestTimeout(id)]_vars

\* C32: the agent.wait request's timeout is the agent-wait deadline plus the
\* 30000 ms buffer and both timers are armed in the same step, so while both
\* are armed the deadline is due first; the request's timer only ever fires
\* for a run whose waiter is no longer pending, and no waiter fails with
\* "Request timeout for agent.wait".
C32_DeadlineBeforeRequestTimeout ==
  /\ [](\A r \in Calls :
          /\ waiter[r].err # "Request timeout for agent.wait"
          /\ (waiter[r].status = "pending" /\ Pending(waiter[r].req)) =>
               WaitRequest(r).timer = waiter[r].timer + BufferTicks)
  /\ [][\A id \in DOMAIN reqs :
          (RequestTimeout(id) /\ reqs[id].method = "agent.wait") =>
            \A r \in Calls : waiter[r].req = id =>
              /\ waiter[r].status # "pending"
              /\ waiter'[r] = waiter[r]]_vars

\* The deadline rejected the waiter, the agent.wait request timed out a
\* buffer later, and its rejection has been ignored.
C32_Witness ==
  \E r \in Calls :
    /\ waiter[r].by = "deadline"
    /\ waiter[r].err = ErrAgentWaitTimeout
    /\ WaitAnswered(r)
    /\ WaitRequest(r).by = "timeout"

\* The runner's sendPrompt of call c has resolved or rejected after sending chat.send.
RunnerSettled(c) == call[c].promise \in {"resolved", "rejected"} /\ call[c].err # ErrRunnerNotConnected

\* C33: in the automated runner's client, once sendPrompt has settled (chat
\* final, error or aborted event, failed chat.send response, or the 5-minute
\* timeout) no pending-request entry for its chat.send id and no event handler
\* for its run remain registered, and no frame dispatched later registers one.
C33_RunnerLeavesNothing ==
  \A c \in Calls : RunnerSettled(c) => c \notin messageHandlers /\ ~Registered(c)

\* ============================================================== resetSession
\* resetSession() on the same client: one sessions.reset request inside
\* try/catch.  call[c] holds the position of the c-th resetSession call:
\* "resetting" while the request is awaited, "reset" once it has completed
\* normally, "failed" if it threw.
ResetRethrows(q) == IF q.status = "resolved" THEN "reset" ELSE "failed"

\* try { await this.sendRequest('sessions.reset', ...) } catch (error) { }
ResetSwallows(q) == "reset"

\* sendRequest throwing 'Not connected' before anything is sent.
NotSent == [NewRequest("sessions.reset", 0, NoTimer) EXCEPT !.status = "rejected",
                                                           !.err = ErrNotConnected]

\* resetSession() is called.
ResetSession(c) ==
  /\ tick = "idle"
  /\ call[c].pc = "idle"
  /\ IF IsConnected
       THEN /\ reqs' = SendRequest(reqs, "sessions.reset", c, DefaultTimeoutTicks)
            /\ messageHandlers' = messageHandlers \cup {Len(reqs')}
            /\ call' = [call EXCEPT ![c].pc = "resetting", ![c].req = Len(reqs')]
       ELSE /\ call' = [call EXCEPT ![c].pc = ResetSwallows(NotSent), ![c].err = NotSent.err]
            /\ UNCHANGED <<reqs, messageHandlers>>
  /\ last' = Quiet
  /\ UNCHANGED <<ws, sock, connected, hs, eventHandlers, waiter, accumulatedResponse, tick>>

\* The sessions.reset request has settled: resetSession returns.
AfterReset(c) ==
  LET id == call[c].req
  IN /\ call[c].pc = "resetting"
     /\ reqs[id].react
     /\ reqs' = [reqs EXCEPT ![id].react = FALSE]
     /\ call' = [call EXCEPT ![c].pc = ResetSwallows(reqs[id]), ![c].err = reqs[id].err]
     /\ tick' = TickAfter(tick, reqs', waiter, call')
     /\ last' = Quiet
     /\ UNCHANGED <<ws, sock, connected, hs, messageHandlers, eventHandlers, waiter,
                    accumulatedResponse>>

ResetNext ==
  \/ Connect
  \/ ConnectTimeout
  \/ SockOpen
  \/ SockError
  \/ SockClose
  \/ RecvChallenge("abc")
  \/ \E ok \in BOOLEAN, e \in ServerErrors : RecvConnectRes(ok, e)
  \/ \E c \in Calls : ResetSession(c)
  \/ \E id \in DOMAIN reqs, ok \in BOOLEAN, e \in ServerErrors :
       RecvResponse(id, ok, e, NoPayload)
  \/ \E id \in DOMAIN reqs : RequestTimeout(id)
  \/ \E c \in Calls : AfterReset(c)
  \/ Disconnect
  \/ Tick

SpecReset == Init /\ [][ResetNext]_vars

\* C34: resetSession never fails: whether sessions.reset is answered ok,
\* answered with ok=false, times out, or cannot be sent because the client is
\* not connected, resetSession completes normally.
C34_ResetNeverFails ==
  [][\A c \in Calls :
       /\ call'[c].pc \in {"idle", "resetting", "reset"}
       /\ AfterReset(c) =>
            /\ Settled(reqs[call[c].req])
            /\ call'[c].pc = "reset"
       /\ (ResetSession(c) /\ ~IsConnected) =>
            /\ call'[c].pc = "reset"
            /\ reqs' = reqs /\ messageHandlers' = messageHandlers]_vars

\* resetSession has completed normally although sessions.reset was answered
\* with ok=false and the server's error message.
C34_Witness ==
  \E c \in Calls :
    /\ call[c].pc = "reset"
    /\ call[c].err = "denied"
    /\ reqs[call[c].req].status = "rejected"

\* Nothing of a run is set up in this step: no handler, no waiter, no request.
NothingRegistered ==
  /\ eventHandlers' = eventHandlers
  /\ waiter' = waiter
  /\ messageHandlers' = messageHandlers
  /\ DOMAIN reqs' = DOMAIN reqs

\* C35: if chat.send is answered ok without a runId, sendPrompt fails with
\* "No runId received from chat.send" and registers no run handler, starts no
\* waiter and sends no agent.wait; if chat.send is answered with ok=false or
\* times out, sendPrompt rejects with that failure and likewise registers nothing.
C35_NoRunIdFails ==
  [][\A c \in Calls :
       AfterChatSend(c) =>
         LET q == reqs[call[c].req]
         IN /\ (q.status = "resolved" /\ q.res.runId = 0) =>
                 /\ call'[c].pc = "failed"
                 /\ call'[c].err = "No runId received from chat.send"
                 /\ NothingRegistered
            /\ q.status = "rejected" =>
                 /\ call'[c].pc = "failed"
                 /\ call'[c].err = q.err
                 /\ q.by = "timeout" => q.err = "Request timeout for chat.send"
                 /\ q.by = "response" => q.err \in {"denied", "chat.send failed"}
                 /\ NothingRegistered]_vars

\* sendPrompt has failed for want of a runId: no handler, no waiter, and
\* chat.send is the last request the call sent.
C35_Witness ==
  \E c \in Calls :
    /\ call[c].pc = "failed"
    /\ call[c].err = ErrNoRunId
    /\ ~Registered(c)
    /\ waiter[c].status = "none"
    /\ reqs[Len(reqs)].method = "chat.send"

\* Run r has an outstanding waiter: its promise is pending, its lifecycle
\* handler is registered, its deadline timer is armed and its agent.wait
\* request is pending.
OutstandingWaiter(r) ==
  /\ waiter[r].status = "pending"
  /\ Registered(r)
  /\ waiter[r].timer # NoTimer
  /\ WaitRequest(r).status = "pending"

\* C36: a lifecycle event with phase start for a run with an outstanding
\* waiter does not settle the waiter and leaves its handler registered, its
\* deadline timer running and its agent.wait request pending.
C36_StartPhaseSettlesNothing ==
  [][\A r \in Calls :
       (OutstandingWaiter(r) /\ RecvAgent(r, "start", "")) =>
         /\ waiter'[r] = waiter[r]
         /\ eventHandlers'[r] = eventHandlers[r]
         /\ reqs' = reqs
         /\ messageHandlers' = messageHandlers
         /\ OutstandingWaiter(r)']_vars

\* The lifecycle handler has just run on a start event and the waiter is
\* still outstanding.
C36_Witness ==
  /\ last = Step("agent", "start", TRUE)
  /\ \E r \in Calls : OutstandingWaiter(r)

\* ------------------------------------------- the cache fields of the delta
\* The largest cache counter a session entry reports.
MaxCache == 2

CacheFields == {"cacheCreation", "cacheRead"}

\* SessionMetadata.cacheCreationTokens / cacheReadTokens, the entry's name of
\* each TokenUsage cache field.
SessionField(f) == IF f = "cacheCreation" THEN "cacheCreationTokens" ELSE "cacheReadTokens"

\* The cache counters of a session entry: each is optional.
CacheEntries ==
  UNION {[D -> 0..MaxCache] : D \in SUBSET {SessionField(f) : f \in CacheFields}}

\* What sessions.list reports for the configured session: no entry or one entry.
CacheLists == {<<>>} \cup {<<s>> : s \in CacheEntries}

NoCache == [f \in {} |-> 0]

\* getSessionTokens(): cacheCreation and cacheRead are copied from the entry
\* (undefined when the entry lacks them); without an entry the snapshot has
\* neither field.
CacheSnapshot(sessions) ==
  IF sessions = <<>> THEN NoCache
  ELSE LET s == sessions[1]
       IN [f \in {g \in CacheFields : SessionField(g) \in DOMAIN s} |-> s[SessionField(f)]]

\* x || 0
OrZero(o, f) == IF f \in DOMAIN o THEN o[f] ELSE 0

\* A delta that keeps every field either snapshot has.
CacheDeltaKeepsZero(endTokens, startTokens) ==
  [f \in {g \in CacheFields : g \in DOMAIN endTokens \cup DOMAIN startTokens} |->
     OrZero(endTokens, f) - OrZero(startTokens, f)]

\* (endTokens.f || 0) - (startTokens.f || 0) || undefined, for both cache fields.
CacheDelta(endTokens, startTokens) ==
  [f \in {g \in CacheFields : OrZero(endTokens, g) - OrZero(startTokens, g) # 0} |->
     OrZero(endTokens, f) - OrZero(startTokens, f)]

CacheCall(pc, startTokens, endTokens, tokens) ==
  [pc |-> pc, startTokens |-> startTokens, endTokens |-> endTokens, tokens |-> tokens]

CacheInit ==
  /\ ws = FALSE
  /\ sock = "none"
  /\ connected = FALSE
  /\ hs = [challengeReceived |-> FALSE, handshakeComplete |-> FALSE, timer |-> NoTimer,
           promise |-> "none", err |-> "", sent |-> 0, version |-> "", nonce |-> ""]
  /\ reqs = <<>>
  /\ messageHandlers = {}
  /\ eventHandlers = [r \in Calls |-> "none"]
  /\ waiter = [r \in Calls |-> NoWaiter]
  /\ call = [c \in Calls |-> CacheCall("before", NoCache, NoCache, NoCache)]
  /\ accumulatedResponse = ""
  /\ tick = "idle"
  /\ last = Quiet

\* const startTokens = await this.getSessionTokens()
CacheStartTokens(c, sessions) ==
  /\ call[c].pc = "before"
  /\ call' = [call EXCEPT ![c] = CacheCall("wait", CacheSnapshot(sessions), NoCache, NoCache)]
  /\ UNCHANGED <<ws, sock, connected, hs, reqs, messageHandlers, eventHandlers, waiter,
                 accumulatedResponse, tick, last>>

\* const endTokens = await this.getSessionTokens()
CacheEndTokens(c, sessions) ==
  /\ call[c].pc = "wait"
  /\ call' = [call EXCEPT ![c] = CacheCall("after", @.startTokens, CacheSnapshot(sessions), NoCache)]
  /\ UNCHANGED <<ws, sock, connected, hs, reqs, messageHandlers, eventHandlers, waiter,
                 accumulatedResponse, tick, last>>

\* const tokens = { ..., cacheCreation: ..., cacheRead: ... }; return
CacheReturn(c) ==
  /\ call[c].pc = "after"
  /\ call' = [call EXCEPT ![c] = CacheCall("done", @.startTokens, @.endTokens,
                                           CacheDelta(@.endTokens, @.startTokens))]
  /\ UNCHANGED <<ws, sock, connected, hs, reqs, messageHandlers, eventHandlers, waiter,
                 accumulatedResponse, tick, last>>

CacheNext ==
  \/ \E c \in Calls, sessions \in CacheLists : CacheStartTokens(c, sessions)
  \/ \E c \in Calls, sessions \in CacheLists : CacheEndTokens(c, sessions)
  \/ \E c \in Calls : CacheReturn(c)

SpecCache == CacheInit /\ [][CacheNext]_vars

\* After minus before of a cache field, an absent counter counting as zero.
Difference(c, f) ==
  (IF f \in DOMAIN call[c].endTokens THEN call[c].endTokens[f] ELSE 0)
  - (IF f \in DOMAIN call[c].startTokens THEN call[c].startTokens[f] ELSE 0)

InEither(c, f) == f \in DOMAIN call[c].startTokens \/ f \in DOMAIN call[c].endTokens

\* C37 as stated: in the returned delta a cache field is omitted exactly when
\* its difference is zero and the field is absent from both snapshots; a field
\* present in either snapshot is carried with the value after minus before.
C37_OmittedOnlyWhenAbsent ==
  \A c \in Calls, f \in CacheFields :
    call[c].pc = "done" =>
      /\ f \notin DOMAIN call[c].tokens <=> (Difference(c, f) = 0 /\ ~InEither(c, f))
      /\ InEither(c, f) =>
           f \in DOMAIN call[c].tokens /\ call[c].tokens[f] = Difference(c, f)

\* C37 amended: in the returned delta a cache field is omitted exactly when
\* its difference is zero, whether or not a snapshot has the field; otherwise
\* the delta carries after minus before, an absent counter counting as zero.
C37_OmittedWhenZero ==
  \A c \in Calls, f \in CacheFields :
    call[c].pc = "done" =>
      /\ f \notin DOMAIN call[c].tokens <=> Difference(c, f) = 0
      /\ Difference(c, f) # 0 => call[c].tokens[f] = Difference(c, f)

\* A delta was returned in which one cache field, present and equal in both
\* snapshots, is omitted and the other one changed and is carried.
C37_Witness ==
  \E c \in Calls, f, g \in CacheFields :
    /\ call[c].pc = "done"
    /\ f \in DOMAIN call[c].startTokens /\ f \in DOMAIN call[c].endTokens
    /\ call[c].startTokens[f] = call[c].endTokens[f]
    /\ f \notin DOMAIN call[c].tokens
    /\ g \in DOMAIN call[c].tokens
    /\ call[c].tokens[g] = Difference(c, g)

\* C38: every value that the connect request transmits and the signature
\* also covers (device id, client id, client mode, role, scopes, signedAt,
\* auth token, nonce) is the same in the request and in the signed payload;
\* the device id and the public key sent are those of the identity created at
\* construction, and no step changes that identity.
C38_RequestMatchesSignedPayload ==
  /\ [](hs.frame # <<>> =>
          LET f == hs.frame[1]
              p == hs.parts
          IN /\ f.device.id = p[2]
             /\ f.clientId = p[3]
             /\ f.mode = p[4]
             /\ f.role = p[5]
             /\ Join(f.scopes, ",") = p[6]
             /\ ToString(f.device.signedAt) = p[7]
             /\ f.auth # <<>> => f.auth[1] = p[8]
             /\ p[8] # "" => f.auth = <<p[8]>>
             /\ f.device.nonce # <<>> => Len(p) = 9 /\ f.device.nonce[1] = p[9]
             /\ Len(p) = 9 => f.device.nonce = <<p[9]>>
             /\ f.device.id = hs.deviceId
             /\ f.device.publicKey = hs.publicKey
             /\ hs.payload = Join(p, "|"))
  /\ [][hs'.deviceId = hs.deviceId /\ hs'.publicKey = hs.publicKey]_vars

\* A connect request was sent with a token and a nonce, both covered by the
\* signature, by the device created at construction, and the gateway has
\* accepted it.
C38_Witness ==
  /\ hs.frame # <<>>
  /\ hs.frame[1].auth = <<"t|k">>
  /\ hs.frame[1].device.nonce = <<"n|1">>
  /\ hs.frame[1].device.signedAt = 1234
  /\ hs.frame[1].device.id = "d2" /\ hs.frame[1].device.publicKey = "k2"
  /\ Len(hs.parts) = 9
  /\ hs.promise = "resolved"

====
